---- MODULE Spec2Model ----
(***************************************************************************)
(* A model of the AgentInvest report-generation pipeline (src/agent.py,    *)
(* src/cache_manager.py, src/tools/web_search.py,                          *)
(* src/tools/financial_tools.py).                                          *)
(*                                                                         *)
(* Text is modelled as a sequence of string tokens.  A literal fragment of *)
(* an f-string is one token; text whose characters the code inspects       *)
(* (titles, citation markers, digits) is spelled one character per token.  *)
(* String concatenation is \o.                                             *)
(***************************************************************************)
EXTENDS Integers, Sequences, FiniteSets, TLC

VARIABLES
    source_map,                 \* AgentInvest.source_map : index -> [url, title]
    cache,                      \* the Redis store: ticker -> serialized entry, or NoEntry
    pc,                         \* position of the operation in progress
    mode,                       \* "run" or "run_v3"
    ticker,                     \* argument of the run in progress
    report_structure,           \* locals of run / run_v3 ...
    web_queries,
    financial_queries,
    web_results,
    financial_results,
    context,
    batch_start,                \* i of the batch loop of run; section index of run_v3
    inflight,                   \* positions whose generation call has not completed yet
    batch_results,              \* results of the completed calls of the gather in progress
    generated_contents,
    previous_sections_content,
    raw_report,
    opening_section,
    executive_summary,
    cited_numbers,
    references_section,
    final_report,
    called,                     \* history: kinds of external call made by the run in progress
    map_fresh,                  \* history: source_map was rebuilt by the run in progress
    ctx_registry,               \* history: the registry built together with `context`
    raised,                     \* history: the retrieval queries whose provider call raised
    client,                     \* RedisCacheManager.client: "redis", or "none" when the ping failed
    cache_hit,                  \* the run in progress found cached_data
    progress,                   \* the messages given to update_progress by the run, in order
    files,                      \* the report files written by the run
    ending,                     \* how the run ended: what left it, and by which call
    session                     \* st.session_state of the front-end: its two flags

vars == << source_map, cache, pc, mode, ticker, report_structure, web_queries,
           financial_queries, web_results, financial_results, context, batch_start,
           inflight, batch_results, generated_contents, previous_sections_content,
           raw_report, opening_section, executive_summary, cited_numbers,
           references_section, final_report, called, map_fresh, ctx_registry,
           raised, client, cache_hit, progress, files, ending, session >>

-----------------------------------------------------------------------------
(* Strings                                                                 *)

\* str.lower on one character
Lower(c) ==
    CASE c = "A" -> "a"
      [] c = "B" -> "b"
      [] c = "Executive" -> "executive"
      [] c = "Summary" -> "summary"
      [] OTHER -> c

\* str.lower
LowerStr(s) == [i \in 1..Len(s) |-> Lower(s[i])]

\* whitespace tokens removed by str.strip
IsSpace(c) == c \in {" ", "\n", "\n\n"}

RECURSIVE LStrip(_)
LStrip(s) ==
    IF s = <<>> THEN s
    ELSE IF IsSpace(Head(s)) THEN LStrip(Tail(s)) ELSE s

RECURSIVE RStrip(_)
RStrip(s) ==
    IF s = <<>> THEN s
    ELSE IF IsSpace(s[Len(s)]) THEN RStrip(SubSeq(s, 1, Len(s) - 1)) ELSE s

\* str.strip
Strip(s) == LStrip(RStrip(s))

Digits == {"0", "1", "2", "3", "4", "5", "6", "7", "8", "9"}

DigitChar(d) ==
    CASE d = 0 -> "0" [] d = 1 -> "1" [] d = 2 -> "2" [] d = 3 -> "3" [] d = 4 -> "4"
      [] d = 5 -> "5" [] d = 6 -> "6" [] d = 7 -> "7" [] d = 8 -> "8" [] OTHER -> "9"

DigitVal(c) ==
    CASE c = "0" -> 0 [] c = "1" -> 1 [] c = "2" -> 2 [] c = "3" -> 3 [] c = "4" -> 4
      [] c = "5" -> 5 [] c = "6" -> 6 [] c = "7" -> 7 [] c = "8" -> 8 [] OTHER -> 9

\* the decimal rendering of a non-negative integer inside an f-string
RECURSIVE IntToDigits(_)
IntToDigits(n) ==
    IF n < 10 THEN << DigitChar(n) >>
    ELSE Append(IntToDigits(n \div 10), DigitChar(n % 10))

\* int() of a string of decimal digits
RECURSIVE DigitsToInt(_)
DigitsToInt(s) ==
    IF s = <<>> THEN 0
    ELSE 10 * DigitsToInt(SubSeq(s, 1, Len(s) - 1)) + DigitVal(s[Len(s)])

\* sep.join(parts)
RECURSIVE Join(_, _)
Join(sep, parts) ==
    IF parts = <<>> THEN <<>>
    ELSE IF Len(parts) = 1 THEN parts[1]
    ELSE parts[1] \o sep \o Join(sep, Tail(parts))

\* sorted(S) for a finite set of integers
RECURSIVE SortedSeq(_)
SortedSeq(S) ==
    IF S = {} THEN <<>>
    ELSE LET m == CHOOSE x \in S : \A y \in S : x <= y
         IN  << m >> \o SortedSeq(S \ {m})

Range(f) == { f[i] : i \in DOMAIN f }

EmptyMap == << >>

\* d[k] = v on a dict
MapPut(m, k, v) == [i \in DOMAIN m \cup {k} |-> IF i = k THEN v ELSE m[i]]

-----------------------------------------------------------------------------
(* Context Formatter: AgentInvest._format_context                          *)

\* f"Source [{source_idx}]:\n{content}\n\n"
SourceBlock(idx, content) ==
    << "Source [" >> \o IntToDigits(idx) \o << "]:\n" >> \o content \o << "\n\n" >>

\* RegisterWeb with the titles compared as written (no lower())
RegisterWebCaseSensitive(st, item) ==
    IF item.url # <<>> /\ item.content # <<>>
    THEN LET title == Strip(item.title)
         IN  IF title # <<>> /\ title \in st.seen
             THEN st
             ELSE [ map  |-> MapPut(st.map, st.idx, [url |-> item.url, title |-> title]),
                    text |-> st.text \o SourceBlock(st.idx, item.content),
                    seen |-> IF title # <<>> THEN st.seen \cup {title} ELSE st.seen,
                    idx  |-> st.idx + 1 ]
    ELSE st

\* the body shared by the two web branches (nested item, flat item)
RegisterWeb(st, item) ==
    IF item.url # <<>> /\ item.content # <<>>
    THEN LET title == Strip(item.title)
         IN  IF title # <<>> /\ LowerStr(title) \in st.seen
             THEN st
             ELSE [ map  |-> MapPut(st.map, st.idx, [url |-> item.url, title |-> title]),
                    text |-> st.text \o SourceBlock(st.idx, item.content),
                    seen |-> IF title # <<>> THEN st.seen \cup {LowerStr(title)} ELSE st.seen,
                    idx  |-> st.idx + 1 ]
    ELSE st

RECURSIVE RegisterWebList(_, _)
RegisterWebList(st, items) ==
    IF items = <<>> THEN st
    ELSE RegisterWebList(RegisterWeb(st, Head(items)), Tail(items))

\* one iteration of `for res in web_results`
WebStep(st, res) ==
    IF res.shape = "list" THEN RegisterWebList(st, res.items)
    ELSE IF res.shape = "dict" THEN RegisterWeb(st, res.items[1])
    ELSE st

RECURSIVE FormatWeb(_, _)
FormatWeb(st, results) ==
    IF results = <<>> THEN st
    ELSE FormatWeb(WebStep(st, Head(results)), Tail(results))

TextOf(s) == IF s = "" THEN <<>> ELSE << s >>

\* f"Title: {n.get('title', '')}\nContent: {n.get('content', '')}"
NewsLine(n) == << "Title: " >> \o TextOf(n.title) \o << "\nContent: " >> \o TextOf(n.content)

\* the content derived from one financial result, by type
FinancialContent(res) ==
    CASE res.kind = "chat" -> TextOf(res.text)
      [] res.kind = "news" -> Join(<< "\n" >>, [i \in 1..Len(res.news) |-> NewsLine(res.news[i])])
      [] res.kind = "str"  -> TextOf(res.text)
      [] OTHER -> <<>>

FinancialTitle(q) == << "Financial data for ", q.ticker, " (", q.query, ")" >>

YahooPrefix == "https://finance.yahoo.com/quote/"

FinancialUrl(q) == << YahooPrefix, q.ticker >>

\* FinancialStep with the index advanced past an error entry
FinancialStepCountsErrors(st, res, q) ==
    LET content == IF res.kind = "exc" THEN <<>> ELSE FinancialContent(res)
    IN  IF content # <<>>
        THEN [ map  |-> MapPut(st.map, st.idx,
                               [url |-> FinancialUrl(q), title |-> FinancialTitle(q)]),
               text |-> st.text \o SourceBlock(st.idx, content),
               seen |-> st.seen,
               idx  |-> st.idx + 1 ]
        ELSE IF res.kind = "exc" THEN [st EXCEPT !.idx = @ + 1] ELSE st

\* one iteration of `for i, res in enumerate(financial_results)`
FinancialStep(st, res, q) ==
    IF res.kind = "exc" THEN st
    ELSE LET content == FinancialContent(res)
         IN  IF content # <<>>
             THEN [ map  |-> MapPut(st.map, st.idx,
                                    [url |-> FinancialUrl(q), title |-> FinancialTitle(q)]),
                    text |-> st.text \o SourceBlock(st.idx, content),
                    seen |-> st.seen,
                    idx  |-> st.idx + 1 ]
             ELSE st

RECURSIVE FormatFinancial(_, _, _, _)
FormatFinancial(st, results, queries, i) ==
    IF i > Len(results) THEN st
    ELSE FormatFinancial(FinancialStep(st, results[i], queries[i]), results, queries, i + 1)

\* the registry not cleared at the start of the pass
KeptMap(old) == old

\* self.source_map.clear()
ClearedMap(old) == EmptyMap

\* _format_context: the new source_map and the returned text
FormatContext(old_map, web, fin, queries) ==
    LET st0 == [map |-> ClearedMap(old_map), text |-> <<>>, seen |-> {}, idx |-> 1]
        st1 == FormatWeb(st0, web)
        st2 == FormatFinancial(st1, fin, queries, 1)
    IN  [map |-> st2.map, text |-> Strip(st2.text)]

-----------------------------------------------------------------------------
(* Report Assembler: citations and references                              *)

\* length of the run of decimal digits of s that starts at position i
RECURSIVE DigitRun(_, _)
DigitRun(s, i) ==
    IF i <= Len(s) /\ s[i] \in Digits THEN 1 + DigitRun(s, i + 1) ELSE 0

\* re.findall(r'\[(\d+)\]', s): the captured groups, left to right, from position i on
RECURSIVE FindAll(_, _)
FindAll(s, i) ==
    IF i > Len(s) THEN <<>>
    ELSE IF s[i] = "["
         THEN LET n == DigitRun(s, i + 1)
              IN  IF n > 0 /\ i + n + 1 <= Len(s) /\ s[i + n + 1] = "]"
                  THEN << SubSeq(s, i + 1, i + n) >> \o FindAll(s, i + n + 2)
                  ELSE FindAll(s, i + 1)
         ELSE FindAll(s, i + 1)

\* _extract_cited_numbers
ExtractCitedNumbers(report_content) ==
    LET found == FindAll(report_content, 1)
    IN  SortedSeq({ DigitsToInt(found[k]) : k \in 1..Len(found) })

RefRule == "\n\n---\n"
RefHeader == "\n<a id=\"references\"></a>\n\n## References\n\n"
RefUnavailable == "Source information unavailable\n\n"

\* ReferenceLine that omits a number absent from the registry
ReferenceLineDropsUnknown(smap, num) ==
    IF num \notin DOMAIN smap
    THEN <<>>
    ELSE LET url == Strip(smap[num].url)
             title == Strip(smap[num].title)
             title_part == IF title # <<>> THEN << " (" >> \o title \o << ")" >> ELSE <<>>
         IN  << "**[" >> \o IntToDigits(num) \o << "]** " >> \o title_part
                \o << " [link](" >> \o url \o << ")\n\n" >>

\* one appended element of references_md for a cited number
ReferenceLine(smap, num) ==
    IF num \notin DOMAIN smap
    THEN << "**[" >> \o IntToDigits(num) \o << "]** ", RefUnavailable >>
    ELSE LET url == Strip(smap[num].url)
             title == Strip(smap[num].title)
             title_part == IF title # <<>> THEN << " (" >> \o title \o << ")" >> ELSE <<>>
         IN  << "**[" >> \o IntToDigits(num) \o << "]** " >> \o title_part
                \o << " [link](" >> \o url \o << ")\n\n" >>

\* _generate_references_section
GenerateReferencesSection(smap, cited) ==
    IF cited = <<>> THEN <<>>
    ELSE LET unique_sorted == SortedSeq(Range(cited))
             lines == [k \in 1..Len(unique_sorted) |-> ReferenceLine(smap, unique_sorted[k])]
         IN  Join(<< "\n" >>, << << RefRule >>, << RefHeader >> >> \o lines)

-----------------------------------------------------------------------------
(* Values shared by the specifications                                     *)

NoEntry == [present |-> FALSE]

Tickers == {"T1"}

\* a call of the pipeline: its kind, the outline position it is for (0 when
\* it is for none), the prior text handed to it, and the attempt in progress
Call(kind, k, prev, attempt) == [call |-> kind, k |-> k, prev |-> prev, attempt |-> attempt]

NoCall == Call("none", 0, <<>>, 0)

\* the run has not ended
NotEnded == [kind |-> "none", by |-> NoCall]

\* the session state a new browser session is given
SessionStart == [report_generated |-> FALSE, is_running |-> FALSE]

\* the locals of a run before the run has assigned them
LocalsBlank ==
    /\ mode = "none"
    /\ ticker = "none"
    /\ report_structure = <<>>
    /\ web_queries = <<>>
    /\ financial_queries = <<>>
    /\ web_results = <<>>
    /\ financial_results = <<>>
    /\ context = <<>>
    /\ batch_start = 0
    /\ inflight = {}
    /\ batch_results = <<>>
    /\ generated_contents = <<>>
    /\ previous_sections_content = <<>>
    /\ raw_report = <<>>
    /\ opening_section = <<>>
    /\ executive_summary = <<>>
    /\ cited_numbers = <<>>
    /\ references_section = <<>>
    /\ final_report = <<>>
    /\ called = {}
    /\ map_fresh = FALSE
    /\ ctx_registry = EmptyMap
    /\ raised = {}
    /\ cache_hit = FALSE
    /\ progress = <<>>
    /\ files = {}
    /\ ending = NotEnded
    /\ session = SessionStart

WebItem(t, u, c) == [title |-> t, url |-> u, content |-> c]
ItemA == WebItem(<< "A" >>, << "u1" >>, << "c1" >>)
ItemA2 == WebItem(<< " ", "a", " " >>, << "u2" >>, << "c2" >>)
ItemB == WebItem(<< "B" >>, << "u3" >>, << "c3" >>)
ItemE1 == WebItem(<<>>, << "u4" >>, << "c4" >>)
ItemE2 == WebItem(<< " " >>, << "u5" >>, << "c5" >>)
ItemNoUrl == WebItem(<< "A" >>, <<>>, << "c6" >>)
ItemNoContent == WebItem(<< "B" >>, << "u7" >>, <<>>)

\* shapes of one element of web_results: a dict, a list of dicts, anything else
AsDict(item) == [shape |-> "dict", items |-> << item >>]
AsList(items) == [shape |-> "list", items |-> items]
NotAResult == [shape |-> "other", items |-> <<>>]

\* values of one element of financial_results
FinExc == [kind |-> "exc", text |-> "boom", news |-> <<>>]
FinStr(t) == [kind |-> "str", text |-> t, news |-> <<>>]
FinChat(t) == [kind |-> "chat", text |-> t, news |-> <<>>]
FinNews(n) == [kind |-> "news", text |-> "", news |-> n]
FinOther == [kind |-> "other", text |-> "AgentOutput(...)", news |-> <<>>]

QueryNames == << "q1", "q2", "q3", "q4" >>
QueryAt(i, t) == [query |-> QueryNames[i], ticker |-> t]

\* a registry left behind by an earlier formatting pass over three other sources
StaleMap == [i \in 1..3 |-> [url |-> << "old", DigitChar(i) >>, title |-> << "o", "l", "d" >>]]

-----------------------------------------------------------------------------
(* SpecFmt: _format_context applied to bounded inputs                      *)

MaxWeb == 2
MaxFin == 2

FmtWebChoices ==
    { AsDict(ItemA), AsDict(ItemA2), AsDict(ItemE1), AsDict(ItemNoUrl),
      AsList(<< ItemA2, ItemB >>), AsList(<< ItemE2, ItemNoContent, ItemA >>), NotAResult }

FmtFinChoices ==
    { FinExc, FinStr("data"), FinChat("resp"),
      FinNews(<< [title |-> "nt", content |-> "nc"] >>), FinOther }

FmtInit ==
    /\ LocalsBlank
    /\ cache = [t \in Tickers |-> NoEntry]
    /\ source_map \in {EmptyMap, StaleMap}
    /\ client = "none"
    /\ pc = "fmt_input"

fmtVars == << source_map, pc, web_results, financial_results, financial_queries, context >>

FmtFrame ==
    UNCHANGED << cache, mode, ticker, report_structure, web_queries, batch_start, inflight,
                 batch_results, generated_contents, previous_sections_content, raw_report,
                 opening_section, executive_summary, cited_numbers, references_section,
                 final_report, called, map_fresh, ctx_registry, raised, client, session, session, progress, files, ending, cache_hit >>

\* the caller supplies one more web result
FmtAddWeb ==
    /\ pc = "fmt_input"
    /\ Len(web_results) < MaxWeb
    /\ \E res \in FmtWebChoices : web_results' = Append(web_results, res)
    /\ UNCHANGED << source_map, pc, financial_results, financial_queries, context >>
    /\ FmtFrame

\* the caller supplies one more financial result, with the query it answers
FmtAddFin ==
    /\ pc = "fmt_input"
    /\ Len(financial_results) < MaxFin
    /\ \E res \in FmtFinChoices : financial_results' = Append(financial_results, res)
    /\ financial_queries' = Append(financial_queries, QueryAt(Len(financial_queries) + 1, "T1"))
    /\ UNCHANGED << source_map, pc, web_results, context >>
    /\ FmtFrame

\* the call of _format_context
FmtCall ==
    /\ pc = "fmt_input"
    /\ LET r == FormatContext(source_map, web_results, financial_results, financial_queries)
       IN  /\ source_map' = r.map
           /\ context' = r.text
    /\ pc' = "fmt_done"
    /\ UNCHANGED << web_results, financial_results, financial_queries >>
    /\ FmtFrame

FmtNext == FmtAddWeb \/ FmtAddFin \/ FmtCall

SpecFmt == FmtInit /\ [][FmtNext]_vars

-----------------------------------------------------------------------------
(* SpecRefs: _extract_cited_numbers and _generate_references_section       *)
(* applied to bounded body texts and registries                            *)

MaxBody == 6

BodyAlphabet == {"[", "]", "1", "2", "x"}

RefRegistries ==
    { EmptyMap,
      [i \in 1..1 |-> [url |-> << "u1" >>, title |-> << "A" >>]],
      [i \in 1..2 |-> [url |-> << "u", DigitChar(i) >>,
                       title |-> IF i = 1 THEN << "A" >> ELSE <<>>]] }

RefInit ==
    /\ LocalsBlank
    /\ cache = [t \in Tickers |-> NoEntry]
    /\ source_map \in RefRegistries
    /\ client = "none"
    /\ pc = "ref_input"

RefFrame ==
    UNCHANGED << source_map, cache, mode, ticker, report_structure, web_queries,
                 financial_queries, web_results, financial_results, context, batch_start,
                 inflight, batch_results, generated_contents, previous_sections_content,
                 opening_section, executive_summary, final_report, called, map_fresh,
                 ctx_registry, raised, client, session, session, progress, files, ending, cache_hit >>

\* the body text grows by one character
RefType ==
    /\ pc = "ref_input"
    /\ Len(raw_report) < MaxBody
    /\ \E c \in BodyAlphabet : raw_report' = Append(raw_report, c)
    /\ UNCHANGED << pc, cited_numbers, references_section >>
    /\ RefFrame

\* cited_numbers = self._extract_cited_numbers(raw_report)
RefExtract ==
    /\ pc = "ref_input"
    /\ cited_numbers' = ExtractCitedNumbers(raw_report)
    /\ pc' = "ref_cited"
    /\ UNCHANGED << raw_report, references_section >>
    /\ RefFrame

\* references_section = self._generate_references_section(cited_numbers)
RefGenerate ==
    /\ pc = "ref_cited"
    /\ references_section' = GenerateReferencesSection(source_map, cited_numbers)
    /\ pc' = "ref_done"
    /\ UNCHANGED << raw_report, cited_numbers >>
    /\ RefFrame

RefNext == RefType \/ RefExtract \/ RefGenerate

SpecRefs == RefInit /\ [][RefNext]_vars

-----------------------------------------------------------------------------
(* Reading rendered text back, for the properties below                    *)

\* the positions of the token t in a text, in ascending order
Positions(text, t) == SortedSeq({ p \in 1..Len(text) : text[p] = t })

\* the number spelled by the digits that start at position p
NumberAt(text, p) == DigitsToInt(SubSeq(text, p, p + DigitRun(text, p) - 1))

\* the indices i of the blocks 'Source [i]' of a context, in text order
ContextIndices(text) ==
    LET ps == Positions(text, "Source [")
    IN  [k \in 1..Len(ps) |-> NumberAt(text, ps[k] + 1)]

\* the numbers of the entries '**[n]**' of a references section, in text order
ReferenceNumbers(text) ==
    LET ps == Positions(text, "**[")
    IN  [k \in 1..Len(ps) |-> NumberAt(text, ps[k] + 1)]

\* the text of the entry '**[n]**' up to the next entry
ReferenceEntry(text, n) ==
    LET ps == Positions(text, "**[")
        k == CHOOSE k \in 1..Len(ps) : NumberAt(text, ps[k] + 1) = n
        last == IF k < Len(ps) THEN ps[k + 1] - 1 ELSE Len(text)
    IN  SubSeq(text, ps[k], last)

\* the entry resolves the number to this registry entry
ResolvesTo(entry, info) ==
    /\ RefUnavailable \notin Range(entry)
    /\ \E p \in 1..Len(entry) :
          /\ entry[p] = " [link]("
          /\ p + Len(info.url) + 1 <= Len(entry)
          /\ SubSeq(entry, p + 1, p + Len(info.url)) = info.url
          /\ entry[p + Len(info.url) + 1] = ")\n\n"
          /\ info.title # <<>> =>
                /\ p - Len(info.title) - 2 >= 1
                /\ SubSeq(entry, p - Len(info.title) - 2, p - 1)
                      = << " (" >> \o info.title \o << ")" >>

IsPlaceholder(entry) == RefUnavailable \in Range(entry)

IsFinancialEntry(info) == info.url # <<>> /\ info.url[1] = YahooPrefix

StrictlyAscending(s) == \A i, j \in 1..Len(s) : i < j => s[i] < s[j]

-----------------------------------------------------------------------------
(* C3 *)

\* the integers n that occur as '[n]' in a body: a '[', a non-empty run of
\* digits spelling n, a ']'
CitedIn(body) ==
    { DigitsToInt(SubSeq(body, p[1] + 1, p[2] - 1)) :
        p \in { q \in (1..Len(body)) \X (1..Len(body)) :
                  /\ q[1] + 1 < q[2]
                  /\ body[q[1]] = "["
                  /\ body[q[2]] = "]"
                  /\ \A k \in (q[1] + 1)..(q[2] - 1) : body[k] \in Digits } }

\* C3: the references section rendered from the extracted numbers has exactly
\* one entry for each distinct integer cited as '[n]' in the body, the entries
\* are in ascending numeric order, and a number absent from the registry gets
\* the 'Source information unavailable' placeholder, a number present in it
\* its registry entry.
C3_ReferencesListEveryCitation ==
    pc = "ref_done" =>
        LET nums == ReferenceNumbers(references_section)
        IN  /\ Range(nums) = CitedIn(raw_report)
            /\ Len(nums) = Cardinality(CitedIn(raw_report))
            /\ StrictlyAscending(nums)
            /\ \A n \in CitedIn(raw_report) :
                  LET entry == ReferenceEntry(references_section, n)
                  IN  IF n \in DOMAIN source_map
                      THEN ResolvesTo(entry, source_map[n])
                      ELSE IsPlaceholder(entry)

\* a body that cites 2 before 1, with 1 known and 2 unknown
C3_Witness ==
    /\ pc = "ref_done"
    /\ raw_report = << "[", "2", "]", "[", "1", "]" >>
    /\ DOMAIN source_map = {1}
    /\ ReferenceNumbers(references_section) = << 1, 2 >>

-----------------------------------------------------------------------------
(* C7, C8, C9 *)

\* the financial results that are not errors, with their queries
RECURSIVE WithoutErrors(_, _)
WithoutErrors(results, queries) ==
    IF results = <<>> THEN [fin |-> <<>>, queries |-> <<>>]
    ELSE LET rest == WithoutErrors(Tail(results), Tail(queries))
         IN  IF Head(results).kind = "exc" THEN rest
             ELSE [fin |-> << Head(results) >> \o rest.fin,
                   queries |-> << Head(queries) >> \o rest.queries]

\* C7: an error entry of the financial results produces no registry entry and
\* does not advance the index counter: the registry and the context are those
\* of the same call with the error entries removed.
C7_ErrorEntriesTakeNoIndex ==
    pc = "fmt_done" =>
        LET ok == WithoutErrors(financial_results, financial_queries)
        IN  /\ [map |-> source_map, text |-> context]
                  = FormatContext(EmptyMap, web_results, ok.fin, ok.queries)
            /\ \A i \in 1..Len(financial_results) :
                  financial_results[i].kind = "exc" =>
                      \A k \in DOMAIN source_map :
                          source_map[k].title # FinancialTitle(financial_queries[i])

\* an error entry followed by a successful one, which takes index 1
C7_Witness ==
    /\ pc = "fmt_done"
    /\ web_results = <<>>
    /\ financial_results = << FinExc, FinStr("data") >>
    /\ DOMAIN source_map = {1}
    /\ source_map[1].title = FinancialTitle(QueryAt(2, "T1"))

\* C8: after _format_context the registry keys are 1..n, the context holds the
\* blocks Source [1] .. Source [n] in this order, and every web index is
\* smaller than every financial index, whatever the registry held before.
C8_IndicesDense ==
    pc = "fmt_done" =>
        LET idxs == ContextIndices(context)
            n == Len(idxs)
        IN  /\ DOMAIN source_map = 1..n
            /\ idxs = [k \in 1..n |-> k]
            /\ \A i, j \in DOMAIN source_map :
                  (IsFinancialEntry(source_map[i]) /\ ~IsFinancialEntry(source_map[j])) => j < i

\* a pass that registered a web and a financial source, fewer than a stale
\* registry held
C8_Witness ==
    /\ pc = "fmt_done"
    /\ DOMAIN source_map = {1, 2}
    /\ ~IsFinancialEntry(source_map[1])
    /\ IsFinancialEntry(source_map[2])
    /\ Len(web_results) = 2

\* the items of the web results in processing order, one level flattened
RECURSIVE AllWebItems(_)
AllWebItems(results) ==
    IF results = <<>> THEN <<>>
    ELSE (IF Head(results).shape = "other" THEN <<>> ELSE Head(results).items)
            \o AllWebItems(Tail(results))

TitleKey(item) == LowerStr(Strip(item.title))

\* C9: among the web items that carry a url and a content, each distinct title
\* (trimmed, compared case-insensitively) is registered once, from its first
\* occurrence; items with an empty title are all registered; the number of web
\* entries is the number of distinct non-empty titles plus the number of
\* empty-title items.
C9_TitlesRegisteredOnce ==
    pc = "fmt_done" =>
        LET items == AllWebItems(web_results)
            elig == { i \in 1..Len(items) : items[i].url # <<>> /\ items[i].content # <<>> }
            keys == { TitleKey(items[i]) : i \in elig } \ { <<>> }
            empties == { i \in elig : TitleKey(items[i]) = <<>> }
            web == { k \in DOMAIN source_map : ~IsFinancialEntry(source_map[k]) }
        IN  /\ Cardinality(web) = Cardinality(keys) + Cardinality(empties)
            /\ \A key \in keys :
                  LET first == CHOOSE i \in elig :
                                  /\ TitleKey(items[i]) = key
                                  /\ \A j \in elig : TitleKey(items[j]) = key => i <= j
                      hits == { k \in web : LowerStr(source_map[k].title) = key }
                  IN  /\ Cardinality(hits) = 1
                      /\ \A k \in hits : source_map[k].url = items[first].url

\* a nested result [" a ", "B"] followed by a flat "A": "A" is the duplicate
C9_Witness ==
    /\ pc = "fmt_done"
    /\ web_results = << AsList(<< ItemA2, ItemB >>), AsDict(ItemA) >>
    /\ financial_results = <<>>
    /\ DOMAIN source_map = {1, 2}
    /\ source_map[1].url = << "u2" >>

-----------------------------------------------------------------------------
(* Retrieval layer                                                         *)

\* what the search provider returns for a query when it does not raise
ProviderHits(query) ==
    IF query = "w1" THEN << ItemA, ItemE1 >> ELSE << ItemA2, ItemB >>

\* WebSearchTool.search: the provider's records, or [] when the call raises
Search(query, outcome) ==
    IF outcome = "raise" THEN AsList(<<>>) ELSE AsList(ProviderHits(query))

\* parallel_search: one result per query, in query order
ParallelSearch(queries, outcomes) ==
    [i \in 1..Len(queries) |-> Search(queries[i], outcomes[i])]

AgentErrorText == "Error running financial agent for query"

\* what the ReAct agent returns for a query when it does not raise
AgentAnswer(outcome) ==
    IF outcome = "chat" THEN FinChat("resp") ELSE FinOther

\* FinancialAgent.arun: the agent's answer, or an error string when the call raises
Arun(query, outcome) ==
    IF outcome = "raise" THEN FinStr(AgentErrorText) ELSE AgentAnswer(outcome)

\* run_financial_queries_parallel: one result per query, in query order
RunFinancialQueriesParallel(queries, outcomes) ==
    [i \in 1..Len(queries) |-> Arun(queries[i].query, outcomes[i])]

-----------------------------------------------------------------------------
(* Result cache: RedisCacheManager                                         *)

\* json.dumps(value, default=str) followed by json.loads, on one financial result
JsonFinancial(res) ==
    IF res.kind \in {"chat", "other", "exc"} THEN FinStr(res.text) ELSE res

\* the same on one web result: lists and dicts of strings survive, anything
\* else becomes a string, which the formatter passes over as before
JsonWeb(res) == IF res.shape = "other" THEN NotAResult ELSE res

\* a read that does not look at the client
GetCachedDataAnyClient(cl, store, t) == store[t]

\* get_cached_data
GetCachedData(cl, store, t) ==
    IF cl = "none" THEN NoEntry ELSE store[t]

\* the lifetime given to a key by ex=self.ttl, in ticks of the store's clock
TtlTicks == 2

\* the value json.loads gives back for the data_to_cache of set_cached_data,
\* with the lifetime the key is given; built_registry is history, not stored
\* by the code: the registry built by the formatting pass that produced
\* `context`
CacheEntry(structure, ctx, web, fin, wq, fq, registry) ==
    [ present |-> TRUE,
      ttl |-> TtlTicks,
      structure |-> structure,
      context |-> ctx,
      web_results |-> [i \in 1..Len(web) |-> JsonWeb(web[i])],
      financial_results |-> [i \in 1..Len(fin) |-> JsonFinancial(fin[i])],
      web_queries |-> wq,
      financial_queries |-> fq,
      built_registry |-> registry ]

\* a write that is discarded whatever the client
SetCachedDataDiscards(cl, store, t, entry) == store

\* set_cached_data
SetCachedData(cl, store, t, entry) ==
    IF cl = "none" THEN store ELSE [store EXCEPT ![t] = entry]

-----------------------------------------------------------------------------
(* Section generation and assembly                                         *)

\* str.replace(old, new) for a one-character old
RECURSIVE Replace(_, _, _)
Replace(s, old, new) ==
    IF s = <<>> THEN <<>>
    ELSE (IF Head(s) = old THEN new ELSE << Head(s) >>) \o Replace(Tail(s), old, new)

RECURSIVE DropWhile(_, _)
DropWhile(s, S) ==
    IF s # <<>> /\ Head(s) \in S THEN DropWhile(Tail(s), S) ELSE s

\* re.sub(r'^\d+\.?\s*', '', s)
StripNumericPrefix(s) ==
    IF s # <<>> /\ Head(s) \in Digits
    THEN LET a == DropWhile(s, Digits)
             b == IF a # <<>> /\ Head(a) = "." THEN Tail(a) ELSE a
         IN  DropWhile(b, {" ", "\n"})
    ELSE s

\* the anchor computed by the assembly loop
Anchor(section_title) ==
    LET section_clean == Strip(section_title)
        a1 == LowerStr(section_clean)
        a2 == Replace(a1, ".", <<>>)
        a3 == Replace(a2, " ", << "-" >>)
        a4 == Replace(a3, "(", <<>>)
        a5 == Replace(a4, ")", <<>>)
        a6 == Replace(a5, "&", << "a", "n", "d" >>)
    IN  StripNumericPrefix(a6)

AnchorOpen == "<a id=\""
AnchorClose == "\"></a>\n\n## "

\* f'<a id="{anchor}"></a>\n\n## {section_title}\n\n{generated_contents[i]}'
SectionBlock(section_title, content) ==
    << AnchorOpen >> \o Anchor(section_title) \o << AnchorClose >> \o section_title
        \o << "\n\n" >> \o content

\* raw_report = "\n\n".join(report_sections_content)
RawReport(structure, contents) ==
    Join(<< "\n\n" >>, [i \in 1..Len(structure) |-> SectionBlock(structure[i], contents[i])])

\* the text the LLM writes for a section title: the title it was asked about,
\* then one of the bodies of SectionBodies
LLMSectionText(section_title, body) == << "On " >> \o section_title \o << ": " >> \o body

\* the results of the completed calls, in completion order
CompletionOrder(batch, results) == [i \in 1..Len(results) |-> results[i].text]

\* asyncio.gather(*tasks): the results in the order of the tasks
Gather(batch, results) ==
    [i \in 1..Len(batch) |->
        (CHOOSE r \in Range(results) : r.pos = batch[i]).text]

BatchSize == 3

Min(a, b) == IF a < b THEN a ELSE b

\* every remaining section issued together
BatchOfAllRemaining(m, start, n) ==
    IF m = "run"
    THEN [k \in 1..(n - start) |-> start + k]
    ELSE << start + 1 >>

\* the positions (1-based) of the sections whose calls are issued together:
\* report_structure[i:i+3] in run, one section in run_v3
Batch(m, start, n) ==
    IF m = "run"
    THEN [k \in 1..(Min(start + BatchSize, n) - start) |-> start + k]
    ELSE << start + 1 >>

\* prior text that accumulates the sections without their headings
PreviousContentWithoutHeading(prev, section_title, content) ==
    IF prev # <<>> THEN prev \o << "\n\n" >> \o content ELSE content

\* previous_sections_content after one more section of run_v3
PreviousContent(prev, section_title, content) ==
    LET formatted_section == << "## " >> \o section_title \o << "\n\n" >> \o content
    IN  IF prev # <<>> THEN prev \o << "\n\n" >> \o formatted_section ELSE formatted_section

TocHeader == "<a id=\"table-of-contents\"></a>\n\n## Table of Contents\n\n"
TocReferences == "- References\n\n"
PageBreak == "<div style='page-break-after: always;'></div>\n\n"

\* _generate_table_of_contents
TableOfContents(structure) ==
    << TocHeader >>
        \o Join(<<>>, [i \in 1..Len(structure) |-> Strip(structure[i]) \o << "\n" >>])
        \o << TocReferences, PageBreak, "---\n\n" >>

TitleDivOpen == "<div class=\"title-page-title\">\n"
TitleInfo == "\n\n<div class=\"title-page-info\">...</div>\n"
OpeningPageBreak == "\n\n<div style='page-break-after: always;'></div>\n\n---\n"

\* generate_opening_section, after the LLM returned: the first line of the
\* stripped response becomes the centred title, the rest follows the info block
OpeningSection(response) ==
    LET clean_title == Replace(Replace(response.title_line, "## ", <<>>), "# ", <<>>)
    IN  << TitleDivOpen >> \o clean_title \o << "\n</div>", TitleInfo >>
            \o response.rest \o << OpeningPageBreak >>

SummaryHeader == "<a id=\"executive-summary\"></a>\n\n## Executive Summary\n\n"
SummaryPageBreak == "\n\n<div style=\"page-break-after: always;\"></div>\n\n---\n"

\* generate_executive_summary, after the LLM returned
ExecutiveSummary(text) == << SummaryHeader >> \o Strip(text) \o << SummaryPageBreak >>

\* the table of contents put in front of the opening block
FinalReportTocFirst(opening, summary, toc, raw, refs) ==
    toc \o << "\n\n" >> \o opening \o << "\n\n" >> \o summary \o << "\n\n" >> \o raw
        \o << "\n\n" >> \o refs

\* final_report = opening_section + "\n\n" + executive_summary + "\n\n" + ...
FinalReport(opening, summary, toc, raw, refs) ==
    opening \o << "\n\n" >> \o summary \o << "\n\n" >> \o toc \o << "\n\n" >> \o raw
        \o << "\n\n" >> \o refs

-----------------------------------------------------------------------------
(* Spec: runs of run and run_v3 on one AgentInvest instance after another, *)
(* over one Redis store                                                    *)

TitleA == << "1", ".", " ", "A" >>
TitleB == << "2", ".", " ", "B" >>
TitleC == << "3", ".", " ", "A", "&", "B" >>
TitleD == << "4", ".", " ", "(", "B", ")" >>

\* what the outline planner may yield; None and [] are both <<>> (the code
\* tests `not report_structure`)
OutlineChoices == { <<>>, << TitleA, TitleB >>, << TitleA, TitleB, TitleC, TitleD >> }

\* what the query planners may yield; None and [] are both <<>> (every use is
\* `x or []` or is guarded by the results being empty)
WebQueryChoices == { <<>>, << "w1" >> }
FinancialQueryChoices(t) == { <<>>, << QueryAt(1, t), QueryAt(2, t) >> }

WebOutcomes == {"raise", "hits"}
AgentOutcomes == {"raise", "chat", "other"}

\* the bodies the LLM may write for a section
SectionBodies == { << "x" >>, << "[", "1", "]" >> }

OpeningResponses == { [title_line |-> << "# ", "Co" >>, rest |-> << "thesis" >>] }
SummaryResponses == { << "summary", "\n" >> }

PlanningCalls == {"company_name", "outline_llm", "web_queries_llm", "financial_queries_llm"}
RetrievalCalls == {"web_search", "financial_agent"}

Init ==
    /\ LocalsBlank
    /\ cache = [t \in Tickers |-> NoEntry]
    /\ source_map = EmptyMap
    /\ client \in {"redis", "none"}
    /\ pc = "idle"

\* the run ends (it returns, or an exception leaves it): its locals are gone
EndRun ==
    /\ pc' = "idle"
    /\ mode' = "none"
    /\ ticker' = "none"
    /\ report_structure' = <<>>
    /\ web_queries' = <<>>
    /\ financial_queries' = <<>>
    /\ web_results' = <<>>
    /\ financial_results' = <<>>
    /\ context' = <<>>
    /\ batch_start' = 0
    /\ inflight' = {}
    /\ batch_results' = <<>>
    /\ generated_contents' = <<>>
    /\ previous_sections_content' = <<>>
    /\ raw_report' = <<>>
    /\ opening_section' = <<>>
    /\ executive_summary' = <<>>
    /\ cited_numbers' = <<>>
    /\ references_section' = <<>>
    /\ final_report' = <<>>
    /\ called' = {}
    /\ map_fresh' = FALSE
    /\ ctx_registry' = EmptyMap
    /\ raised' = {}
    /\ cache_hit' = FALSE

\* the position of a run after the cache check
AfterCacheCheckAlwaysPlans(hit) == "plan_outline"

AfterCacheCheck(hit) == IF hit THEN "generate" ELSE "plan_outline"

\* the cache-hit branch: run formats the cached raw results again, run_v3
\* takes the cached context and leaves the registry alone
HitContext(m, smap, e) ==
    IF m = "run"
    THEN LET r == FormatContext(smap, e.web_results, e.financial_results, e.financial_queries)
         IN  [map |-> r.map, text |-> r.text, fresh |-> TRUE, registry |-> r.map]
    ELSE [map |-> smap, text |-> e.context, fresh |-> FALSE, registry |-> e.built_registry]

\* run / run_v3 up to the first await, on a cache hit
RunCacheHit ==
    /\ pc = "idle"
    /\ \E m \in {"run", "run_v3"}, t \in Tickers :
          LET e == GetCachedData(client, cache, t)
          IN  /\ e.present
              /\ mode' = m
              /\ ticker' = t
              /\ cache_hit' = TRUE
              /\ report_structure' = e.structure
              /\ web_results' = e.web_results
              /\ financial_results' = e.financial_results
              /\ web_queries' = e.web_queries
              /\ financial_queries' = e.financial_queries
              /\ LET h == HitContext(m, source_map, e)
                 IN  /\ source_map' = h.map
                     /\ context' = h.text
                     /\ map_fresh' = h.fresh
                     /\ ctx_registry' = h.registry
    /\ pc' = AfterCacheCheck(TRUE)
    /\ UNCHANGED << cache, batch_start, inflight, batch_results, generated_contents,
                    previous_sections_content, raw_report, opening_section,
                    executive_summary, cited_numbers, references_section, final_report,
                    called, raised, client, session, progress, files, ending >>

\* run / run_v3 up to the first await, on a cache miss: the company name is
\* looked up and the outline call is issued
RunCacheMiss ==
    /\ pc = "idle"
    /\ \E m \in {"run", "run_v3"}, t \in Tickers :
          /\ ~GetCachedData(client, cache, t).present
          /\ mode' = m
          /\ ticker' = t
    /\ cache_hit' = FALSE
    /\ called' = {"company_name", "outline_llm"}
    /\ pc' = AfterCacheCheck(FALSE)
    /\ UNCHANGED << source_map, cache, report_structure, web_queries, financial_queries,
                    web_results, financial_results, context, batch_start, inflight,
                    batch_results, generated_contents, previous_sections_content,
                    raw_report, opening_section, executive_summary, cited_numbers,
                    references_section, final_report, map_fresh, ctx_registry, raised,
                    client, session, progress, files, ending >>

\* generate_report_structure returns: an empty outline ends the run, any
\* other outline issues the two query-planning calls
OutlineReturns ==
    /\ pc = "plan_outline"
    /\ \E o \in OutlineChoices :
          IF o = <<>>
          THEN EndRun
          ELSE /\ report_structure' = o
               /\ called' = called \cup {"web_queries_llm", "financial_queries_llm"}
               /\ pc' = "plan_queries"
               /\ UNCHANGED << mode, ticker, web_queries, financial_queries, web_results,
                               financial_results, context, batch_start, inflight,
                               batch_results, generated_contents,
                               previous_sections_content, raw_report, opening_section,
                               executive_summary, cited_numbers, references_section,
                               final_report, map_fresh, ctx_registry, raised, cache_hit >>
    /\ UNCHANGED << source_map, cache, client, session, progress, files, ending >>

\* both query-planning calls have returned: the retrieval calls are issued
QueriesReturn ==
    /\ pc = "plan_queries"
    /\ \E wq \in WebQueryChoices, fq \in FinancialQueryChoices(ticker) :
          /\ web_queries' = wq
          /\ financial_queries' = fq
          /\ called' = called \cup (IF wq # <<>> THEN {"web_search"} ELSE {})
                              \cup (IF fq # <<>> THEN {"financial_agent"} ELSE {})
    /\ pc' = "retrieve"
    /\ UNCHANGED << source_map, cache, mode, ticker, report_structure, web_results,
                    financial_results, context, batch_start, inflight, batch_results,
                    generated_contents, previous_sections_content, raw_report,
                    opening_section, executive_summary, cited_numbers, references_section,
                    final_report, map_fresh, ctx_registry, raised, client, session, progress, files, ending, cache_hit >>

\* both retrieval paths have returned: the context is formatted and the cache
\* entry is stored
RetrievalReturns ==
    /\ pc = "retrieve"
    /\ \E wo \in [1..Len(web_queries) -> WebOutcomes],
          fo \in [1..Len(financial_queries) -> AgentOutcomes] :
          LET web == ParallelSearch(web_queries, wo)
              fin == RunFinancialQueriesParallel(financial_queries, fo)
              r == FormatContext(source_map, web, fin, financial_queries)
          IN  /\ web_results' = web
              /\ financial_results' = fin
              /\ raised' = { << "web", i >> : i \in { j \in DOMAIN wo : wo[j] = "raise" } }
                              \cup { << "fin", i >> : i \in { j \in DOMAIN fo : fo[j] = "raise" } }
              /\ source_map' = r.map
              /\ context' = r.text
              /\ ctx_registry' = r.map
              /\ cache' = SetCachedData(client, cache, ticker,
                              CacheEntry(report_structure, r.text, web, fin, web_queries,
                                         financial_queries, r.map))
    /\ map_fresh' = TRUE
    /\ pc' = "generate"
    /\ UNCHANGED << mode, ticker, report_structure, web_queries, financial_queries,
                    batch_start, inflight, batch_results, generated_contents,
                    previous_sections_content, raw_report, opening_section,
                    executive_summary, cited_numbers, references_section, final_report,
                    called, client, session, progress, files, ending, cache_hit >>

\* the generation calls of the next batch (run) or of the next section
\* (run_v3) are issued
StartBatch ==
    /\ pc = "generate"
    /\ batch_start < Len(report_structure)
    /\ inflight' = Range(Batch(mode, batch_start, Len(report_structure)))
    /\ batch_results' = <<>>
    /\ called' = called \cup {"section_llm"}
    /\ pc' = "gather"
    /\ UNCHANGED << source_map, cache, mode, ticker, report_structure, web_queries,
                    financial_queries, web_results, financial_results, context,
                    batch_start, generated_contents, previous_sections_content,
                    raw_report, opening_section, executive_summary, cited_numbers,
                    references_section, final_report, map_fresh, ctx_registry, raised,
                    client, session, progress, files, ending, cache_hit >>

\* one generation call in flight returns
SectionReturns ==
    /\ pc = "gather"
    /\ \E k \in inflight, body \in SectionBodies :
          /\ batch_results' = Append(batch_results,
                                  [pos |-> k, text |-> LLMSectionText(report_structure[k], body)])
          /\ inflight' = inflight \ {k}
    /\ UNCHANGED << source_map, cache, pc, mode, ticker, report_structure, web_queries,
                    financial_queries, web_results, financial_results, context,
                    batch_start, generated_contents, previous_sections_content,
                    raw_report, opening_section, executive_summary, cited_numbers,
                    references_section, final_report, called, map_fresh, ctx_registry,
                    raised, client, session, progress, files, ending, cache_hit >>

\* every call of the batch has returned: the results are appended.  The
\* completion records stay until the next batch is issued
GatherReturns ==
    /\ pc = "gather"
    /\ inflight = {}
    /\ LET batch == Batch(mode, batch_start, Len(report_structure))
           results == Gather(batch, batch_results)
       IN  /\ generated_contents' = generated_contents \o results
           /\ previous_sections_content' =
                 IF mode = "run_v3"
                 THEN PreviousContent(previous_sections_content,
                                      report_structure[batch[1]], results[1])
                 ELSE previous_sections_content
           /\ batch_start' = batch_start + Len(batch)
    /\ pc' = "generate"
    /\ UNCHANGED << source_map, cache, mode, ticker, report_structure, web_queries,
                    financial_queries, web_results, financial_results, context, inflight,
                    batch_results,
                    raw_report, opening_section, executive_summary, cited_numbers,
                    references_section, final_report, called, map_fresh, ctx_registry,
                    raised, client, session, progress, files, ending, cache_hit >>

\* the assembly loop over the outline; the opening-section call is issued
AssembleBody ==
    /\ pc = "generate"
    /\ batch_start >= Len(report_structure)
    /\ raw_report' = RawReport(report_structure, generated_contents)
    /\ called' = called \cup {"opening_llm"}
    /\ pc' = "opening"
    /\ UNCHANGED << source_map, cache, mode, ticker, report_structure, web_queries,
                    financial_queries, web_results, financial_results, context,
                    batch_start, inflight, batch_results, generated_contents,
                    previous_sections_content, opening_section, executive_summary,
                    cited_numbers, references_section, final_report, map_fresh,
                    ctx_registry, raised, client, session, progress, files, ending, cache_hit >>

\* generate_opening_section returns; the executive-summary call is issued
OpeningReturns ==
    /\ pc = "opening"
    /\ \E response \in OpeningResponses : opening_section' = OpeningSection(response)
    /\ called' = called \cup {"summary_llm"}
    /\ pc' = "summary"
    /\ UNCHANGED << source_map, cache, mode, ticker, report_structure, web_queries,
                    financial_queries, web_results, financial_results, context,
                    batch_start, inflight, batch_results, generated_contents,
                    previous_sections_content, raw_report, executive_summary,
                    cited_numbers, references_section, final_report, map_fresh,
                    ctx_registry, raised, client, session, progress, files, ending, cache_hit >>

\* generate_executive_summary returns; table of contents, references and the
\* final report are built
SummaryReturns ==
    /\ pc = "summary"
    /\ \E response \in SummaryResponses :
          LET summary == ExecutiveSummary(response)
              cited == ExtractCitedNumbers(raw_report)
              refs == GenerateReferencesSection(source_map, cited)
          IN  /\ executive_summary' = summary
              /\ cited_numbers' = cited
              /\ references_section' = refs
              /\ final_report' = FinalReport(opening_section, summary,
                                             TableOfContents(report_structure),
                                             raw_report, refs)
    /\ pc' = "assembled"
    /\ UNCHANGED << source_map, cache, mode, ticker, report_structure, web_queries,
                    financial_queries, web_results, financial_results, context,
                    batch_start, inflight, batch_results, generated_contents,
                    previous_sections_content, raw_report, opening_section, called,
                    map_fresh, ctx_registry, raised, client, session, progress, files, ending, cache_hit >>

\* the run returns final_report
RunReturns ==
    /\ pc = "assembled"
    /\ EndRun
    /\ UNCHANGED << source_map, cache, client, session, progress, files, ending >>

\* an LLM call exhausts its retries: the exception leaves the run
CallFails ==
    /\ \/ pc \in {"plan_outline", "plan_queries", "opening", "summary"}
       \/ pc = "gather" /\ inflight # {}
    /\ EndRun
    /\ UNCHANGED << source_map, cache, client, session, progress, files, ending >>

\* AgentInvest(): a new instance, with an empty registry.  Whether the store
\* answers the constructor's ping is fixed for a behaviour (Init)
NewInstance ==
    /\ pc = "idle"
    /\ source_map' = EmptyMap
    /\ UNCHANGED << cache, client, session, progress, files, ending, pc, mode, ticker, report_structure, web_queries,
                    financial_queries, web_results, financial_results, context,
                    batch_start, inflight, batch_results, generated_contents,
                    previous_sections_content, raw_report, opening_section,
                    executive_summary, cited_numbers, references_section, final_report,
                    called, map_fresh, ctx_registry, raised, cache_hit >>

\* the TTL of an entry runs out.  A run reads the store only in its first step
\* and writes it only in RetrievalReturns, which overwrites the entry, so an
\* expiry during a run is the same as one before or after it
CacheExpires ==
    /\ pc = "idle"
    /\ \E t \in Tickers :
          /\ cache[t].present
          /\ cache' = [cache EXCEPT ![t] = NoEntry]
    /\ UNCHANGED << source_map, pc, mode, ticker, report_structure, web_queries,
                    financial_queries, web_results, financial_results, context,
                    batch_start, inflight, batch_results, generated_contents,
                    previous_sections_content, raw_report, opening_section,
                    executive_summary, cited_numbers, references_section, final_report,
                    called, map_fresh, ctx_registry, raised, client, session, progress, files, ending, cache_hit >>

Next ==
    \/ RunCacheHit
    \/ RunCacheMiss
    \/ OutlineReturns
    \/ QueriesReturn
    \/ RetrievalReturns
    \/ StartBatch
    \/ SectionReturns
    \/ GatherReturns
    \/ AssembleBody
    \/ OpeningReturns
    \/ SummaryReturns
    \/ RunReturns
    \/ CallFails
    \/ NewInstance
    \/ CacheExpires

Spec == Init /\ [][Next]_vars

-----------------------------------------------------------------------------
(* SpecCache: the operations that reach the Redis store, each taken up to  *)
(* its last access to the store, and the store's own clock.  The locals of *)
(* an operation are not kept: only the registry and the store outlast it   *)

\* run / run_v3 on a cache miss, up to set_cached_data: planning, retrieval,
\* formatting and the write.  What follows in the run does not reach the
\* store.  A run whose outline is empty returns before the write
CacheRunMiss ==
    /\ pc = "cache_idle"
    /\ \E m \in {"run", "run_v3"}, t \in Tickers, o \in OutlineChoices \ { <<>> },
          wq \in WebQueryChoices :
          \E fq \in FinancialQueryChoices(t) :
             \E wo \in [1..Len(wq) -> WebOutcomes], fo \in [1..Len(fq) -> AgentOutcomes] :
                LET web == ParallelSearch(wq, wo)
                    fin == RunFinancialQueriesParallel(fq, fo)
                    r == FormatContext(source_map, web, fin, fq)
                IN  /\ ~GetCachedData(client, cache, t).present
                    /\ mode' = m
                    /\ ticker' = t
                    /\ source_map' = r.map
                    /\ cache' = SetCachedData(client, cache, t,
                                    CacheEntry(o, r.text, web, fin, wq, fq, r.map))
    /\ cache_hit' = FALSE
    /\ UNCHANGED << report_structure, web_queries, financial_queries, web_results,
                    financial_results, context, map_fresh, ctx_registry, pc, batch_start,
                    inflight, batch_results, generated_contents,
                    previous_sections_content, raw_report, opening_section,
                    executive_summary, cited_numbers, references_section, final_report,
                    called, raised, client, session, progress, files, ending >>

\* run / run_v3 on a cache hit, up to the end of the cache-hit branch
CacheRunHit ==
    /\ pc = "cache_idle"
    /\ \E m \in {"run", "run_v3"}, t \in Tickers :
          LET e == GetCachedData(client, cache, t)
          IN  /\ e.present
              /\ mode' = m
              /\ ticker' = t
              /\ source_map' = HitContext(m, source_map, e).map
    /\ cache_hit' = TRUE
    /\ UNCHANGED << report_structure, web_queries, financial_queries, web_results,
                    financial_results, context, map_fresh, ctx_registry, cache, pc,
                    batch_start, inflight, batch_results, generated_contents,
                    previous_sections_content, raw_report, opening_section,
                    executive_summary, cited_numbers, references_section, final_report,
                    called, raised, client, session, progress, files, ending >>

\* regenerate_context_from_cache, when it finds an entry that holds results:
\* the context is formatted again and the entry is written again
RegenerateContextFromCache ==
    /\ pc = "cache_idle"
    /\ \E t \in Tickers :
          LET cached_data == GetCachedData(client, cache, t)
          IN  /\ cached_data.present
              /\ ~(cached_data.web_results = <<>> /\ cached_data.financial_results = <<>>)
              /\ LET r == FormatContext(source_map, cached_data.web_results,
                                        cached_data.financial_results,
                                        cached_data.financial_queries)
                 IN  /\ source_map' = r.map
                     /\ cache' = SetCachedData(client, cache, t,
                                     CacheEntry(cached_data.structure, r.text,
                                                cached_data.web_results,
                                                cached_data.financial_results,
                                                cached_data.web_queries,
                                                cached_data.financial_queries, r.map))
              /\ ticker' = t
    /\ mode' = "regenerate"
    /\ UNCHANGED << context, ctx_registry, pc, report_structure, web_queries, financial_queries, web_results,
                    financial_results, batch_start, inflight, batch_results,
                    generated_contents, previous_sections_content, raw_report,
                    opening_section, executive_summary, cited_numbers, references_section,
                    final_report, called, map_fresh, raised, client, session, cache_hit, progress,
                    files, ending >>

\* get_cached_raw_results, when it finds an entry: the raw results are returned
GetCachedRawResults ==
    /\ pc = "cache_idle"
    /\ \E t \in Tickers :
          LET cached_data == GetCachedData(client, cache, t)
          IN  /\ cached_data.present
              /\ ticker' = t
    /\ mode' = "raw_results"
    /\ UNCHANGED << report_structure, web_queries, financial_queries, web_results,
                    financial_results, source_map, cache, pc, context, batch_start, inflight, batch_results,
                    generated_contents, previous_sections_content, raw_report,
                    opening_section, executive_summary, cited_numbers, references_section,
                    final_report, called, map_fresh, ctx_registry, raised, client, session,
                    cache_hit, progress, files, ending >>

\* clear_cached_report: the key is deleted
ClearCachedReport ==
    /\ pc = "cache_idle"
    /\ client # "none"
    /\ \E t \in Tickers :
          /\ cache[t].present
          /\ cache' = [cache EXCEPT ![t] = NoEntry]
    /\ UNCHANGED << source_map, pc, mode, ticker, report_structure, web_queries,
                    financial_queries, web_results, financial_results, context,
                    batch_start, inflight, batch_results, generated_contents,
                    previous_sections_content, raw_report, opening_section,
                    executive_summary, cited_numbers, references_section, final_report,
                    called, map_fresh, ctx_registry, raised, client, session, cache_hit, progress,
                    files, ending >>

\* the store's clock ticks: every key has one tick less to live, a key whose
\* lifetime has run out is gone
CacheTick ==
    /\ pc = "cache_idle"
    /\ \E t \in Tickers : cache[t].present
    /\ cache' = [t \in Tickers |->
                    IF ~cache[t].present THEN NoEntry
                    ELSE IF cache[t].ttl > 1
                         THEN [cache[t] EXCEPT !.ttl = cache[t].ttl - 1]
                         ELSE NoEntry]
    /\ UNCHANGED << source_map, pc, mode, ticker, report_structure, web_queries,
                    financial_queries, web_results, financial_results, context,
                    batch_start, inflight, batch_results, generated_contents,
                    previous_sections_content, raw_report, opening_section,
                    executive_summary, cited_numbers, references_section, final_report,
                    called, map_fresh, ctx_registry, raised, client, session, cache_hit, progress,
                    files, ending >>

\* AgentInvest(): a new instance, whose RedisCacheManager pings the store
CacheNewInstance ==
    /\ pc = "cache_idle"
    /\ source_map' = EmptyMap
    /\ client' \in {"redis", "none"}
    /\ UNCHANGED << cache, pc, mode, ticker, report_structure, web_queries,
                    financial_queries, web_results, financial_results, context,
                    batch_start, inflight, batch_results, generated_contents,
                    previous_sections_content, raw_report, opening_section,
                    executive_summary, cited_numbers, references_section, final_report,
                    called, map_fresh, ctx_registry, raised, cache_hit, progress, files,
                    ending, session >>

CacheInit ==
    /\ LocalsBlank
    /\ cache = [t \in Tickers |-> NoEntry]
    /\ source_map = EmptyMap
    /\ client \in {"redis", "none"}
    /\ pc = "cache_idle"

CacheNext ==
    \/ CacheRunMiss
    \/ CacheRunHit
    \/ RegenerateContextFromCache
    \/ GetCachedRawResults
    \/ ClearCachedReport
    \/ CacheTick
    \/ CacheNewInstance

SpecCache == CacheInit /\ [][CacheNext]_vars

-----------------------------------------------------------------------------
(* SpecRun: one run of run or run_v3, call by call: every external call is *)
(* in flight from its start to its return, LLM calls are retried, and the  *)
(* progress messages and written files are recorded                        *)

\* what _parse_llm_python_output gives for a planner's response: None when the
\* response does not parse, else the list
PlannerNull == [null |-> TRUE, list |-> <<>>]
PlannerList(l) == [null |-> FALSE, list |-> l]

\* `x or []`
OrEmpty(r) == IF r.null THEN <<>> ELSE r.list

\* an outline that lets a list through whatever its length
OutlineUsableUnlessNull(r) == ~r.null

\* `not report_structure` is false
OutlineUsable(r) == ~r.null /\ r.list # <<>>

\* queries handed to the retrieval paths as they are: None raises in them
QueriesAsGiven(r) == [ok |-> ~r.null, list |-> r.list]

\* the argument `queries or []` of a retrieval path
QueriesOrEmpty(r) == [ok |-> TRUE, list |-> OrEmpty(r)]

StopAfterAttempt == 3

\* a retry limit one attempt higher
RetryOnceMore(n) == n < StopAfterAttempt + 1

\* tenacity's stop_after_attempt(3): attempt n failed, another one is made
ShouldRetry(n) == n < StopAfterAttempt

\* the call without its attempt counter
CallId(c) == [c EXCEPT !.attempt = 0]

\* the LLM call of a pipeline step that takes no position and no prior text
Plain(kind) == Call(kind, 0, <<>>, 1)

InFlight(kind) == { c \in inflight : c.call = kind }

Started(kind) == { c \in called : c.call = kind }

\* calls that have started and are no longer in flight
Finished(kind) == { c \in Started(kind) : \A d \in inflight : CallId(d) # c }

LLMKinds == {"outline_llm", "web_queries_llm", "financial_queries_llm", "section_llm",
             "opening_llm", "summary_llm"}

\* an await that resumes as soon as the calls of one of the kinds have returned
GatheredFirst(kinds) == \E k \in kinds : \A c \in inflight : c.call # k

\* await asyncio.gather(...) resumes: every awaited call has returned
Gathered(kinds) == \A c \in inflight : c.call \notin kinds

\* update_progress(message)
Emit(log, messages) == log \o messages

\* the run started the calls cs
Start(cs) ==
    /\ inflight' = inflight \cup cs
    /\ called' = called \cup { CallId(c) : c \in cs }

\* the run started the calls cs when the call c returned
StartAfter(c, cs) ==
    /\ inflight' = (inflight \ {c}) \cup cs
    /\ called' = called \cup { CallId(x) : x \in cs }

\* a title the outline prompt asks the LLM not to give
TitleExecutiveSummary == << "Executive", " ", "Summary" >>

\* the responses the planners may give: the outline planner returns whatever
\* list the response parses to
RunOutlinePlans == { PlannerNull, PlannerList(<<>>),
                     PlannerList(<< TitleA, TitleB, TitleC, TitleD >>),
                     PlannerList(<< TitleExecutiveSummary >>) }
RunWebPlans == { PlannerNull, PlannerList(<<>>), PlannerList(<< "w1" >>) }
RunFinancialPlans(t) == { PlannerNull, PlannerList(<<>>), PlannerList(<< QueryAt(1, t) >>) }

RunSectionBodies == { << "x" >> }

\* an entry left in the store by an earlier run of the same ticker
StoredEntry ==
    LET web == ParallelSearch(<< "w1" >>, [i \in 1..1 |-> "hits"])
        r == FormatContext(EmptyMap, web, <<>>, <<>>)
    IN  CacheEntry(<< TitleA, TitleB >>, r.text, web, <<>>, << "w1" >>, <<>>, r.map)

RunInit ==
    /\ LocalsBlank
    /\ cache \in { [t \in Tickers |-> NoEntry], [t \in Tickers |-> StoredEntry] }
    /\ source_map = EmptyMap
    /\ client \in {"redis", "none"}
    /\ pc = "run_idle"

\* the run is over: it returned (a report or nothing) or an exception left it
Ends(kind, by) ==
    /\ ending' = [kind |-> kind, by |-> by]
    /\ pc' = "ended"

\* the section-generation calls of the batch that starts after position start
SectionCalls(m, structure, start, prev) ==
    LET batch == Batch(m, start, Len(structure))
    IN  { Call("section_llm", batch[i], IF m = "run_v3" THEN prev ELSE <<>>, 1) :
            i \in 1..Len(batch) }

\* run / run_v3 up to its first await
RunStart ==
    /\ pc = "run_idle"
    /\ \E m \in {"run", "run_v3"}, t \in Tickers :
          LET e == GetCachedData(client, cache, t)
          IN  /\ mode' = m
              /\ ticker' = t
              /\ IF e.present
                 THEN LET h == HitContext(m, source_map, e)
                      IN  /\ cache_hit' = TRUE
                          /\ report_structure' = PlannerList(e.structure)
                          /\ web_results' = e.web_results
                          /\ financial_results' = e.financial_results
                          /\ web_queries' = PlannerList(e.web_queries)
                          /\ financial_queries' = PlannerList(e.financial_queries)
                          /\ source_map' = h.map
                          /\ context' = h.text
                          /\ map_fresh' = h.fresh
                          /\ ctx_registry' = h.registry
                          /\ progress' = Emit(progress,
                                << "starting", "cache_found", "cached_company",
                                   "cached_results", "generating_sections" >>
                                \o (IF m = "run_v3" THEN << "generating_section" >> ELSE <<>>))
                          /\ Start(SectionCalls(m, e.structure, 0, <<>>))
                          /\ pc' = "sections"
                 ELSE /\ cache_hit' = FALSE
                      /\ report_structure' = PlannerNull
                      /\ web_queries' = PlannerNull
                      /\ financial_queries' = PlannerNull
                      /\ progress' = Emit(progress,
                            << "starting", "company", "generating_structure" >>)
                      /\ Start({ Plain("outline_llm") })
                      /\ pc' = "outline"
                      /\ UNCHANGED << source_map, web_results, financial_results, context,
                                      map_fresh, ctx_registry >>
    /\ UNCHANGED << cache, batch_start, batch_results, generated_contents,
                    previous_sections_content, raw_report, opening_section,
                    executive_summary, cited_numbers, references_section, final_report,
                    raised, client, session, files, ending >>

\* an attempt of an LLM call fails: the call is retried, or, after the last
\* attempt, raises.  An exception leaves the run when the run still awaits
\* the call; the other calls of a gather stay in flight
RunAttemptFails ==
    /\ \E c \in inflight :
          /\ c.call \in LLMKinds
          /\ IF ShouldRetry(c.attempt)
             THEN /\ inflight' = (inflight \ {c}) \cup {[c EXCEPT !.attempt = c.attempt + 1]}
                  /\ UNCHANGED << pc, ending >>
             ELSE /\ inflight' = inflight \ {c}
                  /\ IF pc # "ended"
                     THEN Ends("raised", c)
                     ELSE UNCHANGED << pc, ending >>
    /\ UNCHANGED << source_map, cache, mode, ticker, report_structure, web_queries,
                    financial_queries, web_results, financial_results, context,
                    batch_start, batch_results, generated_contents,
                    previous_sections_content, raw_report, opening_section,
                    executive_summary, cited_numbers, references_section, final_report,
                    called, map_fresh, ctx_registry, raised, client, session, cache_hit, progress,
                    files >>

\* generate_report_structure returns: an outline that is None or empty ends
\* the run, any other outline starts the two query-planning tasks
RunOutlineReturns ==
    /\ pc = "outline"
    /\ \E c \in InFlight("outline_llm"), o \in RunOutlinePlans :
          /\ report_structure' = o
          /\ IF OutlineUsable(o)
             THEN /\ progress' = Emit(progress,
                        << "structure_generated", "generating_queries" >>)
                  /\ StartAfter(c, { Plain("web_queries_llm"),
                                     Plain("financial_queries_llm") })
                  /\ pc' = "plan"
                  /\ UNCHANGED ending
             ELSE /\ progress' = Emit(progress, << "abort_no_structure" >>)
                  /\ inflight' = inflight \ {c}
                  /\ Ends("returned_nothing", NoCall)
                  /\ UNCHANGED called
    /\ UNCHANGED << source_map, cache, mode, ticker, web_queries, financial_queries,
                    web_results, financial_results, context, batch_start, batch_results,
                    generated_contents, previous_sections_content, raw_report,
                    opening_section, executive_summary, cited_numbers, references_section,
                    final_report, map_fresh, ctx_registry, raised, client, session, cache_hit,
                    files >>

\* a query-planning task returns
RunPlannerReturns ==
    /\ pc = "plan"
    /\ \/ \E c \in InFlight("web_queries_llm"), r \in RunWebPlans :
             /\ web_queries' = r
             /\ inflight' = inflight \ {c}
             /\ UNCHANGED financial_queries
       \/ \E c \in InFlight("financial_queries_llm"), r \in RunFinancialPlans(ticker) :
             /\ financial_queries' = r
             /\ inflight' = inflight \ {c}
             /\ UNCHANGED web_queries
    /\ UNCHANGED << source_map, cache, pc, mode, ticker, report_structure, web_results,
                    financial_results, context, batch_start, batch_results,
                    generated_contents, previous_sections_content, raw_report,
                    opening_section, executive_summary, cited_numbers, references_section,
                    final_report, called, map_fresh, ctx_registry, raised, client, session,
                    cache_hit, progress, files, ending >>

SearchBatchSize == 3

\* every remaining query submitted together
SearchBatchOfAllRemaining(start, n) == [k \in 1..(n - start) |-> start + k]

\* the positions of the web queries submitted together: queries[i:i+3]
SearchBatch(start, n) == [k \in 1..(Min(start + SearchBatchSize, n) - start) |-> start + k]

SearchCalls(start, n) ==
    { Call("web_search", SearchBatch(start, n)[i], <<>>, 1) :
        i \in 1..Len(SearchBatch(start, n)) }

AgentCalls(n) == { Call("financial_agent", i, <<>>, 1) : i \in 1..n }

\* the gather of the two query-planning tasks returns: the two retrieval tasks
\* are created and run up to their first await
RunPlanned ==
    /\ pc = "plan"
    /\ Gathered({"web_queries_llm", "financial_queries_llm"})
    /\ LET wq == QueriesOrEmpty(web_queries)
           fq == QueriesOrEmpty(financial_queries)
       IN  /\ progress' = Emit(progress,
                  (IF OrEmpty(web_queries) # <<>> THEN << "web_queries_generated" >> ELSE <<>>)
                  \o (IF OrEmpty(financial_queries) # <<>>
                      THEN << "financial_queries_generated" >> ELSE <<>>)
                  \o << "gathering" >>)
           /\ IF wq.ok /\ fq.ok
              THEN /\ Start(SearchCalls(0, Len(wq.list)) \cup AgentCalls(Len(fq.list)))
                   /\ pc' = "retrieve"
                   /\ UNCHANGED ending
              ELSE /\ Ends("raised", NoCall)
                   /\ UNCHANGED << inflight, called >>
    /\ web_results' = <<>>
    /\ UNCHANGED << source_map, cache, mode, ticker, report_structure, web_queries,
                    financial_queries, financial_results, context, batch_start,
                    batch_results, generated_contents, previous_sections_content,
                    raw_report, opening_section, executive_summary, cited_numbers,
                    references_section, final_report, map_fresh, ctx_registry, raised,
                    client, session, cache_hit, files >>

\* a web search returns: the provider's records, or [] when its call raised
RunSearchReturns ==
    /\ pc = "retrieve"
    /\ \E c \in InFlight("web_search"), o \in WebOutcomes :
          /\ inflight' = inflight \ {c}
          /\ raised' = raised \cup (IF o = "raise" THEN { << "web", c.k >> } ELSE {})
    /\ UNCHANGED << source_map, cache, pc, mode, ticker, report_structure, web_queries,
                    financial_queries, web_results, financial_results, context,
                    batch_start, batch_results, generated_contents,
                    previous_sections_content, raw_report, opening_section,
                    executive_summary, cited_numbers, references_section, final_report,
                    called, map_fresh, ctx_registry, client, session, cache_hit, progress, files,
                    ending >>

\* what the searches of a batch returned, in the order of the batch
SearchResults(queries, batch, failed) ==
    [i \in 1..Len(batch) |->
        Search(queries[batch[i]],
               IF << "web", batch[i] >> \in failed THEN "raise" ELSE "hits")]

\* the gather of a batch of web searches returns: the results are appended
\* and, after the pause, the next batch is submitted
RunSearchBatchGathered ==
    /\ pc = "retrieve"
    /\ Gathered({"web_search"})
    /\ Len(web_results) < Len(OrEmpty(web_queries))
    /\ LET queries == OrEmpty(web_queries)
           batch == SearchBatch(Len(web_results), Len(queries))
           all_results == web_results \o SearchResults(queries, batch, raised)
       IN  /\ web_results' = all_results
           /\ Start(SearchCalls(Len(all_results), Len(queries)))
    /\ UNCHANGED << source_map, cache, pc, mode, ticker, report_structure, web_queries,
                    financial_queries, financial_results, context, batch_start,
                    batch_results, generated_contents, previous_sections_content,
                    raw_report, opening_section, executive_summary, cited_numbers,
                    references_section, final_report, map_fresh, ctx_registry, raised,
                    client, session, cache_hit, progress, files, ending >>

RunAgentOutcomes == {"raise", "chat"}

\* a financial agent call returns: its answer, or an error string when it raised
RunAgentReturns ==
    /\ pc = "retrieve"
    /\ \E c \in InFlight("financial_agent"), o \in RunAgentOutcomes :
          /\ inflight' = inflight \ {c}
          /\ raised' = raised \cup (IF o = "raise" THEN { << "fin", c.k >> } ELSE {})
    /\ UNCHANGED << source_map, cache, pc, mode, ticker, report_structure, web_queries,
                    financial_queries, web_results, financial_results, context,
                    batch_start, batch_results, generated_contents,
                    previous_sections_content, raw_report, opening_section,
                    executive_summary, cited_numbers, references_section, final_report,
                    called, map_fresh, ctx_registry, client, session, cache_hit, progress, files,
                    ending >>

\* the gather of the two retrieval tasks returns: the context is formatted,
\* the cache entry is stored and the first section-generation calls start.
\* A query list that is None is stored as JSON null; the entry holds it as
\* the empty list, which is how every reader of the entry uses it
RunRetrieved ==
    /\ pc = "retrieve"
    /\ Gathered({"web_search", "financial_agent"})
    /\ Len(web_results) = Len(OrEmpty(web_queries))
    /\ LET queries == OrEmpty(financial_queries)
           fin == RunFinancialQueriesParallel(queries,
                      [i \in 1..Len(queries) |->
                          IF << "fin", i >> \in raised THEN "raise" ELSE "chat"])
           r == FormatContext(source_map, web_results, fin, queries)
       IN  /\ financial_results' = fin
           /\ source_map' = r.map
           /\ context' = r.text
           /\ ctx_registry' = r.map
           /\ cache' = SetCachedData(client, cache, ticker,
                           CacheEntry(report_structure.list, r.text, web_results, fin,
                                      OrEmpty(web_queries), queries, r.map))
    /\ map_fresh' = TRUE
    /\ progress' = Emit(progress,
          << "gathering_complete", "formatting", "generating_sections" >>
          \o (IF mode = "run_v3" THEN << "generating_section" >> ELSE <<>>))
    /\ Start(SectionCalls(mode, report_structure.list, 0, <<>>))
    /\ pc' = "sections"
    /\ UNCHANGED << mode, ticker, report_structure, web_queries, financial_queries,
                    web_results, batch_start, batch_results, generated_contents,
                    previous_sections_content, raw_report, opening_section,
                    executive_summary, cited_numbers, references_section, final_report,
                    raised, client, session, cache_hit, files, ending >>

\* a section-generation call returns its text
RunSectionReturns ==
    /\ pc = "sections"
    /\ \E c \in InFlight("section_llm"), body \in RunSectionBodies :
          /\ inflight' = inflight \ {c}
          /\ batch_results' = Append(batch_results,
                [pos |-> c.k, text |-> LLMSectionText(report_structure.list[c.k], body)])
    /\ UNCHANGED << source_map, cache, pc, mode, ticker, report_structure, web_queries,
                    financial_queries, web_results, financial_results, context,
                    batch_start, generated_contents, previous_sections_content,
                    raw_report, opening_section, executive_summary, cited_numbers,
                    references_section, final_report, called, map_fresh, ctx_registry,
                    raised, client, session, cache_hit, progress, files, ending >>

\* every call of the batch has returned: the texts are appended and, after
\* the pause, the next calls start: those of the next batch, or, after the
\* last batch, the assembly loop runs and the opening-section call starts
RunBatchGathered ==
    /\ pc = "sections"
    /\ Gathered({"section_llm"})
    /\ LET structure == report_structure.list
           batch == Batch(mode, batch_start, Len(structure))
           results == Gather(batch, batch_results)
           contents == generated_contents \o results
           prev == IF mode = "run_v3"
                   THEN PreviousContent(previous_sections_content, structure[batch[1]],
                                        results[1])
                   ELSE previous_sections_content
           next == batch_start + Len(batch)
       IN  /\ generated_contents' = contents
           /\ previous_sections_content' = prev
           /\ batch_start' = next
           /\ IF next < Len(structure)
              THEN /\ Start(SectionCalls(mode, structure, next, prev))
                   /\ progress' = Emit(progress,
                         IF mode = "run_v3" THEN << "generating_section" >> ELSE <<>>)
                   /\ UNCHANGED << pc, raw_report >>
              ELSE /\ raw_report' = RawReport(structure, contents)
                   /\ progress' = Emit(progress,
                         << "sections_generated", "generating_opening" >>)
                   /\ Start({ Plain("opening_llm") })
                   /\ pc' = "opening"
    /\ batch_results' = <<>>
    /\ UNCHANGED << source_map, cache, mode, ticker, report_structure, web_queries,
                    financial_queries, web_results, financial_results, context,
                    opening_section, executive_summary, cited_numbers, references_section,
                    final_report, map_fresh, ctx_registry, raised, client, session, cache_hit,
                    files, ending >>

\* generate_opening_section returns; the executive-summary call starts
RunOpeningReturns ==
    /\ pc = "opening"
    /\ \E c \in InFlight("opening_llm"), response \in OpeningResponses :
          /\ opening_section' = OpeningSection(response)
          /\ StartAfter(c, { Plain("summary_llm") })
    /\ progress' = Emit(progress, << "generating_summary" >>)
    /\ pc' = "summary"
    /\ UNCHANGED << source_map, cache, mode, ticker, report_structure, web_queries,
                    financial_queries, web_results, financial_results, context,
                    batch_start, batch_results, generated_contents,
                    previous_sections_content, raw_report, executive_summary,
                    cited_numbers, references_section, final_report, map_fresh,
                    ctx_registry, raised, client, session, cache_hit, files, ending >>

\* open(output_md_filename, "w") and f.write(final_report): done, or IOError
WriteOutcomes == {"written", "io_error"}

\* the progress message of the try / except IOError around the write
WriteMessage(w) == IF w = "written" THEN "md_saved" ELSE "md_save_failed"

\* an export that goes on to the renderer whatever the write did
GoesOnWhateverTheWrite(w) == TRUE

\* `return final_report` in the except IOError branch is not taken
GoesOnToRender(w) == w = "written"

\* generate_executive_summary returns: table of contents, references and the
\* final report are built and the markdown file is written; the renderer is
\* called when the file was written, else the run returns the report
RunSummaryReturns ==
    /\ pc = "summary"
    /\ \E c \in InFlight("summary_llm"), response \in SummaryResponses, w \in WriteOutcomes :
          LET summary == ExecutiveSummary(response)
              cited == ExtractCitedNumbers(raw_report)
              refs == GenerateReferencesSection(source_map, cited)
          IN  /\ executive_summary' = summary
              /\ cited_numbers' = cited
              /\ references_section' = refs
              /\ final_report' = FinalReport(opening_section, summary,
                                             TableOfContents(report_structure.list),
                                             raw_report, refs)
              /\ files' = files \cup (IF w = "written" THEN {"md"} ELSE {})
              /\ IF GoesOnToRender(w)
                 THEN /\ progress' = Emit(progress,
                            << "generating_toc", "generating_references",
                               "assembly_complete", WriteMessage(w), "converting_pdf" >>)
                      /\ StartAfter(c, { Plain("pdf_render") })
                      /\ pc' = "export"
                      /\ UNCHANGED ending
                 ELSE /\ progress' = Emit(progress,
                            << "generating_toc", "generating_references",
                               "assembly_complete", WriteMessage(w) >>)
                      /\ inflight' = inflight \ {c}
                      /\ Ends("returned_report", NoCall)
                      /\ UNCHANGED called
    /\ UNCHANGED << source_map, cache, mode, ticker, report_structure, web_queries,
                    financial_queries, web_results, financial_results, context,
                    batch_start, batch_results, generated_contents,
                    previous_sections_content, raw_report, opening_section, map_fresh,
                    ctx_registry, raised, client, session, cache_hit >>

\* convert_report_to_pdf: True with the file in place, True with no file,
\* True with a zero-byte file, or False
RenderOutcomes == {"rendered", "no_file", "empty_file", "failed"}

\* what the renderer leaves on disk: the document, a zero-byte file, nothing
RenderedFiles(o) ==
    CASE o = "rendered" -> {"pdf"}
      [] o = "empty_file" -> {"pdf_zero_bytes"}
      [] OTHER -> {}

\* a report of success that takes the renderer's word for it
PdfMessageWithoutFileTest(o) == IF o = "failed" THEN "pdf_failed" ELSE "pdf_saved"

\* the message chosen from pdf_success, os.path.exists and os.path.getsize
PdfMessage(o) ==
    CASE o = "rendered" -> "pdf_saved"
      [] o \in {"no_file", "empty_file"} -> "pdf_not_created"
      [] OTHER -> "pdf_failed"

\* convert_report_to_pdf returns; the run returns the report
RunRenderReturns ==
    /\ pc = "export"
    /\ \E c \in InFlight("pdf_render"), o \in RenderOutcomes :
          /\ inflight' = inflight \ {c}
          /\ files' = files \cup RenderedFiles(o)
          /\ progress' = Emit(progress, << PdfMessage(o) >>)
    /\ Ends("returned_report", NoCall)
    /\ UNCHANGED << source_map, cache, mode, ticker, report_structure, web_queries,
                    financial_queries, web_results, financial_results, context,
                    batch_start, batch_results, generated_contents,
                    previous_sections_content, raw_report, opening_section,
                    executive_summary, cited_numbers, references_section, final_report,
                    called, map_fresh, ctx_registry, raised, client, session, cache_hit >>

\* a call left in flight by a run that an exception has left returns: no one
\* awaits its result
RunOrphanReturns ==
    /\ pc = "ended"
    /\ \E c \in inflight : inflight' = inflight \ {c}
    /\ UNCHANGED << source_map, cache, pc, mode, ticker, report_structure, web_queries,
                    financial_queries, web_results, financial_results, context,
                    batch_start, batch_results, generated_contents,
                    previous_sections_content, raw_report, opening_section,
                    executive_summary, cited_numbers, references_section, final_report,
                    called, map_fresh, ctx_registry, raised, client, session, cache_hit, progress,
                    files, ending >>

RunNext ==
    \/ RunStart
    \/ RunAttemptFails
    \/ RunOutlineReturns
    \/ RunPlannerReturns
    \/ RunPlanned
    \/ RunSearchReturns
    \/ RunSearchBatchGathered
    \/ RunAgentReturns
    \/ RunRetrieved
    \/ RunSectionReturns
    \/ RunBatchGathered
    \/ RunOpeningReturns
    \/ RunSummaryReturns
    \/ RunRenderReturns
    \/ RunOrphanReturns

SpecRun == RunInit /\ [][RunNext]_vars

-----------------------------------------------------------------------------
(* SpecRetr: the two retrieval paths on their own, applied to every query  *)
(* list up to a length and to every pattern of per-query failures          *)

MaxRetrWeb == 4
MaxRetrFin == 2

\* the web query at position i
WebQueryAt(i) == IF i % 2 = 1 THEN "w1" ELSE "w2"

RetrInit ==
    /\ LocalsBlank
    /\ cache = [t \in Tickers |-> NoEntry]
    /\ source_map = EmptyMap
    /\ client = "redis"
    /\ pc = "retr_idle"

\* parallel_search(search_tool, queries)
RetrParallelSearch ==
    /\ pc \in {"retr_idle", "retr_done"}
    /\ \E n \in 0..MaxRetrWeb :
          \E outcomes \in [1..n -> WebOutcomes] :
              LET queries == [i \in 1..n |-> WebQueryAt(i)]
              IN  /\ web_queries' = queries
                  /\ web_results' = ParallelSearch(queries, outcomes)
                  /\ raised' = { r \in raised : r[1] = "fin" }
                                \cup { << "web", i >> : i \in { j \in 1..n : outcomes[j] = "raise" } }
    /\ pc' = "retr_done"
    /\ UNCHANGED << source_map, cache, mode, ticker, report_structure,
                    financial_queries, financial_results, context, batch_start,
                    inflight, batch_results, generated_contents,
                    previous_sections_content, raw_report, opening_section,
                    executive_summary, cited_numbers, references_section, final_report,
                    called, map_fresh, ctx_registry, client, session, cache_hit, progress, files,
                    ending >>

\* run_financial_queries_parallel(agent, queries)
RetrFinancialQueries ==
    /\ pc \in {"retr_idle", "retr_done"}
    /\ \E n \in 0..MaxRetrFin, t \in Tickers :
          \E outcomes \in [1..n -> AgentOutcomes] :
              LET queries == [i \in 1..n |-> QueryAt(i, t)]
              IN  /\ financial_queries' = queries
                  /\ financial_results' = RunFinancialQueriesParallel(queries, outcomes)
                  /\ raised' = { r \in raised : r[1] = "web" }
                                \cup { << "fin", i >> : i \in { j \in 1..n : outcomes[j] = "raise" } }
    /\ pc' = "retr_done"
    /\ UNCHANGED << source_map, cache, mode, ticker, report_structure, web_queries,
                    web_results, context, batch_start, inflight, batch_results,
                    generated_contents, previous_sections_content, raw_report,
                    opening_section, executive_summary, cited_numbers, references_section,
                    final_report, called, map_fresh, ctx_registry, client, session, cache_hit,
                    progress, files, ending >>

RetrNext == RetrParallelSearch \/ RetrFinancialQueries

SpecRetr == RetrInit /\ [][RetrNext]_vars

-----------------------------------------------------------------------------
(* SpecSearch: one call of parallel_search, request by request: `called`   *)
(* is the sequence of the positions submitted, in submission order         *)

MaxSearchQueries == 7

\* what a call of parallel_search leaves alone
searchFrame == << source_map, cache, mode, ticker, report_structure, financial_queries,
                  financial_results, context, batch_results, generated_contents,
                  previous_sections_content, raw_report, opening_section,
                  executive_summary, cited_numbers, references_section, final_report,
                  map_fresh, ctx_registry, client, session, cache_hit, progress, files, ending >>

\* before the call: nothing submitted, nothing in flight, no result
SearchInit ==
    /\ called = <<>>
    /\ inflight = {}
    /\ web_queries = <<>>
    /\ web_results = <<>>
    /\ raised = {}
    /\ batch_start = 0
    /\ pc = "search_idle"
    /\ mode = "none"
    /\ ticker = "none"
    /\ report_structure = <<>>
    /\ financial_queries = <<>>
    /\ financial_results = <<>>
    /\ context = <<>>
    /\ batch_results = <<>>
    /\ generated_contents = <<>>
    /\ previous_sections_content = <<>>
    /\ raw_report = <<>>
    /\ opening_section = <<>>
    /\ executive_summary = <<>>
    /\ cited_numbers = <<>>
    /\ references_section = <<>>
    /\ final_report = <<>>
    /\ map_fresh = FALSE
    /\ ctx_registry = EmptyMap
    /\ cache_hit = FALSE
    /\ progress = <<>>
    /\ files = {}
    /\ ending = NotEnded
    /\ session = SessionStart
    /\ cache = [t \in Tickers |-> NoEntry]
    /\ source_map = EmptyMap
    /\ client = "redis"

\* tasks = [search_tool.search(query) for query in batch] and the gather that
\* schedules them
SearchSubmit(start, n) ==
    /\ inflight' = SearchCalls(start, n)
    /\ called' = called \o SearchBatch(start, n)

\* parallel_search(search_tool, queries) up to its first await, or to its
\* return when there is no query
SearchCall ==
    /\ pc = "search_idle"
    /\ \E n \in 0..MaxSearchQueries :
          /\ web_queries' = [i \in 1..n |-> WebQueryAt(i)]
          /\ SearchSubmit(0, n)
          /\ pc' = IF n = 0 THEN "search_done" ELSE "searching"
    /\ batch_start' = 0
    /\ UNCHANGED << web_results, raised >>
    /\ UNCHANGED searchFrame

\* a request returns: WebSearchTool.search gives the records, or [] when the
\* provider call raised
SearchOneReturns ==
    /\ pc = "searching"
    /\ \E c \in inflight, o \in WebOutcomes :
          /\ inflight' = inflight \ {c}
          /\ raised' = raised \cup (IF o = "raise" THEN { << "web", c.k >> } ELSE {})
    /\ UNCHANGED << web_queries, web_results, called, batch_start, pc >>
    /\ UNCHANGED searchFrame

\* the gather of a batch returns: its results are appended in batch order
\* and, after the pause, the next batch is submitted or the list is returned
SearchGathered ==
    /\ pc = "searching"
    /\ Gathered({"web_search"})
    /\ LET n == Len(web_queries)
           batch == SearchBatch(batch_start, n)
           next == batch_start + SearchBatchSize
       IN  /\ web_results' = web_results \o SearchResults(web_queries, batch, raised)
           /\ batch_start' = next
           /\ IF next < n
              THEN /\ SearchSubmit(next, n)
                   /\ UNCHANGED pc
              ELSE /\ pc' = "search_done"
                   /\ UNCHANGED << inflight, called >>
    /\ UNCHANGED << web_queries, raised >>
    /\ UNCHANGED searchFrame

SearchNext == SearchCall \/ SearchOneReturns \/ SearchGathered

SpecSearch == SearchInit /\ [][SearchNext]_vars

-----------------------------------------------------------------------------
(* SpecAnchor: the assembly loop on its own, applied to outlines of one or *)
(* two titles made of a numeric prefix and a stem                          *)

MaxStemLen == 2

StemAlphabet == {"A", " ", "&", "("}

\* the ways a planner numbers a title, and none
NumericPrefixes == { <<>>, << "1" >>, << "1", "." >>, << "1", ".", " " >>,
                     << "2", ".", " " >>, << "1", " " >>, << "1", "2", ".", " " >> }

Stems == UNION { [1..n -> StemAlphabet] : n \in 1..MaxStemLen }

AnchorTitles == { pre \o stem : pre \in NumericPrefixes, stem \in Stems }

AnchorOutlines == { << t >> : t \in AnchorTitles }
                     \cup { << t, u >> : t \in AnchorTitles, u \in AnchorTitles }

\* what the assembly loop leaves alone
anchorFrame == << source_map, cache, mode, ticker, web_queries, financial_queries,
                  web_results, financial_results, context, batch_start, inflight,
                  batch_results, previous_sections_content, opening_section,
                  executive_summary, cited_numbers, references_section, final_report,
                  called, map_fresh, ctx_registry, raised, client, session, cache_hit, progress,
                  files, ending >>

AnchorInit ==
    /\ LocalsBlank
    /\ cache = [t \in Tickers |-> NoEntry]
    /\ source_map = EmptyMap
    /\ client = "redis"
    /\ pc = "anchor_idle"

\* the outline and the generated contents the loop is entered with
AnchorOutlined ==
    /\ pc = "anchor_idle"
    /\ \E o \in AnchorOutlines :
          /\ report_structure' = o
          /\ generated_contents' = [i \in 1..Len(o) |-> << "x" >>]
    /\ pc' = "anchor_outlined"
    /\ UNCHANGED raw_report
    /\ UNCHANGED anchorFrame

\* the loop over enumerate(report_structure) and the join
AnchorAssemble ==
    /\ pc = "anchor_outlined"
    /\ raw_report' = RawReport(report_structure, generated_contents)
    /\ pc' = "anchor_assembled"
    /\ UNCHANGED << report_structure, generated_contents >>
    /\ UNCHANGED anchorFrame

AnchorNext == AnchorOutlined \/ AnchorAssemble

SpecAnchor == AnchorInit /\ [][AnchorNext]_vars

-----------------------------------------------------------------------------
(* SpecUi: one 'Generate Report' action of the Streamlit front-end around  *)
(* the run of SpecRun                                                      *)

UiInit ==
    /\ LocalsBlank
    /\ cache \in { [t \in Tickers |-> NoEntry], [t \in Tickers |-> StoredEntry] }
    /\ source_map = EmptyMap
    /\ client \in {"redis", "none"}
    /\ pc = "ui_idle"

\* the button is pressed: the session state is reset, is_running is set and
\* AgentInvest() is constructed, which may raise; asyncio.run then starts run
UiGenerateReport ==
    /\ pc = "ui_idle"
    /\ ~session.is_running
    /\ session' = [report_generated |-> FALSE, is_running |-> TRUE]
    /\ progress' = <<>>
    /\ \E constructed \in BOOLEAN :
          IF constructed
          THEN pc' = "run_idle" /\ UNCHANGED ending
          ELSE Ends("raised", NoCall)
    /\ UNCHANGED << source_map, cache, mode, ticker, report_structure, web_queries,
                    financial_queries, web_results, financial_results, context,
                    batch_start, inflight, batch_results, generated_contents,
                    previous_sections_content, raw_report, opening_section,
                    executive_summary, cited_numbers, references_section, final_report,
                    called, map_fresh, ctx_registry, raised, client, cache_hit, files >>

\* the value of report_generated after the try / except / finally around
\* asyncio.run(agent.run(...)): the assignment follows the call and is
\* skipped only by an exception
ReportGenerated(e) == e.kind # "raised"

\* asyncio.run returns or raises: the flag is set or the error is shown, and
\* the finally clause clears is_running
UiRunOver ==
    /\ pc = "ended"
    /\ session.is_running
    /\ session' = [report_generated |-> ReportGenerated(ending), is_running |-> FALSE]
    /\ pc' = "ui_done"
    /\ UNCHANGED << source_map, cache, mode, ticker, report_structure, web_queries,
                    financial_queries, web_results, financial_results, context,
                    batch_start, inflight, batch_results, generated_contents,
                    previous_sections_content, raw_report, opening_section,
                    executive_summary, cited_numbers, references_section, final_report,
                    called, map_fresh, ctx_registry, raised, client, cache_hit, progress,
                    files, ending >>

UiNext ==
    \/ UiGenerateReport
    \/ RunNext
    \/ UiRunOver

SpecUi == UiInit /\ [][UiNext]_vars

-----------------------------------------------------------------------------
(* Properties of the pipeline                                              *)

\* C1: in every run that reaches assembly, for every index i with a block
\* 'Source [i]' in the context given to the generation calls, a citation [i]
\* of the body is resolved by the references section to the registry entry
\* created for that block: never to a placeholder, never to another source.
C1_CitationsResolveToContextSources ==
    pc = "assembled" =>
        \A i \in Range(ContextIndices(context)) \cap CitedIn(raw_report) :
            /\ i \in Range(ReferenceNumbers(references_section))
            /\ i \in DOMAIN ctx_registry
            /\ ResolvesTo(ReferenceEntry(references_section, i), ctx_registry[i])

\* C2: every registry entry consulted when a run renders its references was
\* created by a formatting pass executed within that same run.
C2_RegistryBuiltInSameRun ==
    pc = "assembled" =>
        \A n \in Range(cited_numbers) : n \in DOMAIN source_map => map_fresh

\* the positions of the anchors of the body sections in a text
SectionAnchors(text) == Positions(text, AnchorOpen)

\* the text carries, from position p on, exactly the tokens of part
HasAt(text, p, part) ==
    /\ p >= 1
    /\ p + Len(part) - 1 <= Len(text)
    /\ SubSeq(text, p, p + Len(part) - 1) = part

C5_OutlineOrderPreserved ==
    pc \in {"opening", "summary", "assembled"} =>
        LET n == Len(report_structure)
            sections == SectionAnchors(raw_report)
        IN  /\ Len(generated_contents) = n
            /\ Len(sections) = n
            /\ \A i \in 1..n :
                  /\ \E body \in SectionBodies :
                        generated_contents[i] = LLMSectionText(report_structure[i], body)
                  /\ HasAt(raw_report, sections[i],
                           SectionBlock(report_structure[i], generated_contents[i]))

\* a batched run assembled after the call for the second section of its last
\* batch completed before the call for the first
C5_Witness ==
    /\ pc = "assembled"
    /\ mode = "run"
    /\ Len(batch_results) = 2
    /\ batch_results[1].pos > batch_results[2].pos

\* C6: a retrieval query that fails contributes no registry entry and no
\* 'Source [i]' block: after the formatting pass of a run that retrieved, no
\* entry carries the title of a financial query whose agent call raised, the
\* context does not carry its error text, and a web search that raised
\* leaves its result empty.
C6_FailedQueriesSkipped ==
    (map_fresh /\ ~cache_hit) =>
        \A r \in raised :
            IF r[1] = "fin"
            THEN /\ \A k \in DOMAIN source_map :
                        source_map[k].title # FinancialTitle(financial_queries[r[2]])
                 /\ AgentErrorText \notin Range(context)
            ELSE web_results[r[2]].items = <<>>

\* C10: on a cache hit a run performs no company-name lookup, no outline or
\* query-planning call, no web search and no financial agent call, before
\* section generation starts and up to the end of the run.
C10_CacheHitSkipsPlanningAndRetrieval ==
    (pc # "idle" /\ cache_hit) =>
        called \cap (PlanningCalls \cup RetrievalCalls) = {}

\* a run on a cache hit that has issued generation calls
C10_Witness ==
    /\ pc = "gather"
    /\ cache_hit
    /\ "section_llm" \in called

-----------------------------------------------------------------------------
(* Properties of the store                                                 *)

\* what an entry holds, without its remaining lifetime
EntryContent(e) ==
    << e.structure, e.context, e.web_results, e.financial_results, e.web_queries,
       e.financial_queries >>

\* C11: once an entry exists, no operation changes what it holds or extends
\* its lifetime until it expires or is cleared: in every step that finds an
\* entry and leaves one, the content is the same and the remaining lifetime
\* has not grown.
C11_EntryReadOnly ==
    [][ \A t \in Tickers :
          (cache[t].present /\ cache'[t].present) =>
              /\ EntryContent(cache'[t]) = EntryContent(cache[t])
              /\ cache'[t].ttl <= cache[t].ttl ]_vars

-----------------------------------------------------------------------------
(* Properties of a run, call by call                                       *)

\* the kinds of call that have been started
StartedKinds == { c.call : c \in called }

PlanningKinds == {"outline_llm", "web_queries_llm", "financial_queries_llm"}

\* the run went the way of a run that found nothing in the store: it called
\* the outline planner, and it reached section generation only through both
\* query planners and a formatting pass of its own
RunsUncached ==
    /\ ~cache_hit
    /\ pc # "run_idle" => "outline_llm" \in StartedKinds
    /\ "section_llm" \in StartedKinds =>
          /\ PlanningKinds \subseteq StartedKinds
          /\ map_fresh

OutlineYielded ==
    /\ ~cache_hit
    /\ "outline_llm" \in StartedKinds
    /\ InFlight("outline_llm") = {}
    /\ ~(ending.kind = "raised" /\ ending.by.call = "outline_llm")

\* C13: an outline that is null or empty is fatal on a cache miss: the run
\* has ended without a report, its last progress message is the abort
\* message, the outline call is the only call it ever issued, and no report
\* file was written.
C13_EmptyOutlineIsFatal ==
    (OutlineYielded /\ (report_structure.null \/ report_structure.list = <<>>)) =>
        /\ pc = "ended"
        /\ ending.kind = "returned_nothing"
        /\ progress[Len(progress)] = "abort_no_structure"
        /\ StartedKinds = {"outline_llm"}
        /\ inflight = {}
        /\ files = {}

\* a run whose outline planner returned an empty list has ended
C13_Witness ==
    /\ OutlineYielded
    /\ report_structure = PlannerList(<<>>)
    /\ pc = "ended"

QueryPlanningKinds == {"web_queries_llm", "financial_queries_llm"}

\* both query planners of a run that missed the store have returned a value
\* and the run has gone past their gather
QueriesPlanned ==
    /\ ~cache_hit
    /\ QueryPlanningKinds \subseteq StartedKinds
    /\ pc # "plan"
    /\ ending.by.call \notin QueryPlanningKinds

NoQueries(r) == r.null \/ r.list = <<>>

\* C14: a query list that is null or empty is tolerated: its retrieval path
\* issues no external call and gives an empty result list, and the run goes
\* on: no exception leaves it except from a later generation call, and the
\* report it returns is assembled.
C14_EmptyQueryListsTolerated ==
    QueriesPlanned =>
        /\ NoQueries(web_queries) =>
              ("web_search" \notin StartedKinds /\ web_results = <<>>)
        /\ NoQueries(financial_queries) =>
              ("financial_agent" \notin StartedKinds /\ financial_results = <<>>)
        /\ ending.kind = "raised" =>
              ending.by.call \in {"section_llm", "opening_llm", "summary_llm"}
        /\ ending.kind = "returned_report" => final_report # <<>>

\* a run whose planners gave no web query and no financial query has returned
\* its report
C14_Witness ==
    /\ QueriesPlanned
    /\ web_queries.null
    /\ financial_queries = PlannerList(<<>>)
    /\ ending.kind = "returned_report"
    /\ final_report # <<>>

\* the attempts of the retried calls in flight are within the limit
AttemptsWithinLimit ==
    \A c \in inflight : c.call \in LLMKinds => (1 <= c.attempt /\ c.attempt <= 3)

\* a step moves a retried call by at most one attempt
OneAttemptAtATime ==
    \A c \in inflight : \A d \in inflight' :
        (c.call \in LLMKinds /\ CallId(d) = CallId(c)) =>
            d.attempt \in {c.attempt, c.attempt + 1}

\* the failure that leaves the run is that of a third attempt, and the call
\* is not tried again
RaisesAfterThirdAttempt ==
    (ending.kind # "raised" /\ ending'.kind = "raised") =>
        /\ ending'.by \in inflight
        /\ ending'.by.call \in LLMKinds
        /\ ending'.by.attempt = 3
        /\ \A d \in inflight' : CallId(d) # CallId(ending'.by)

\* C15: every retried operation calls its LLM service at most 3 times per
\* invocation, one attempt after the other; an attempt that does not fail
\* ends the invocation, and the failure is propagated to the caller after the
\* third failed attempt and not before.
C15_AtMostThreeAttempts ==
    /\ []AttemptsWithinLimit
    /\ [][OneAttemptAtATime /\ RaisesAfterThirdAttempt]_vars

\* a section-generation call has failed three times and its failure has left
\* the run
C15_Witness ==
    /\ ending.kind = "raised"
    /\ ending.by.call = "section_llm"
    /\ ending.by.attempt = 3

\* the progress messages of run and run_v3 that report a failure
FailureMessages == {"abort_no_structure", "md_save_failed", "pdf_not_created", "pdf_failed"}

\* C16: every stage failure surfaces as a progress message before the
\* exception propagates: when an exception has left the run, a progress
\* message describing a failure was delivered earlier in the same run.
C16_FailureSurfacesBeforeException ==
    ending.kind = "raised" =>
        \E i \in 1..Len(progress) : progress[i] \in FailureMessages

RetrievalKinds == {"web_search", "financial_agent"}

\* no call of these kinds is in flight
NoneInFlight(kinds) == { c \in inflight : c.call \in kinds } = {}

\* every retrieval call the query lists ask for has been started and has
\* returned, and the context has been formatted from the results
RetrievalComplete ==
    /\ NoneInFlight(RetrievalKinds)
    /\ { c.k : c \in Started("web_search") } = 1..Len(OrEmpty(web_queries))
    /\ { c.k : c \in Started("financial_agent") } = 1..Len(OrEmpty(financial_queries))
    /\ Len(web_results) = Len(OrEmpty(web_queries))
    /\ Len(financial_results) = Len(OrEmpty(financial_queries))
    /\ map_fresh

\* C17: no pipelining across stage boundaries: a retrieval call has started
\* only if both query-planning calls have completed; a section-generation
\* call has started, in a run that retrieved, only if every retrieval call
\* has completed and the context is formatted; the opening-section call has
\* started only if every section-generation call has completed; the
\* executive-summary call has started only if the opening-section call has
\* completed.
C17_NoPipeliningAcrossStages ==
    /\ StartedKinds \cap RetrievalKinds # {} =>
          /\ QueryPlanningKinds \subseteq StartedKinds
          /\ NoneInFlight(QueryPlanningKinds)
    /\ ("section_llm" \in StartedKinds /\ ~cache_hit) => RetrievalComplete
    /\ "opening_llm" \in StartedKinds =>
          /\ NoneInFlight({"section_llm"})
          /\ { c.k : c \in Started("section_llm") } = 1..Len(report_structure.list)
          /\ Len(generated_contents) = Len(report_structure.list)
    /\ "summary_llm" \in StartedKinds =>
          /\ "opening_llm" \in StartedKinds
          /\ NoneInFlight({"opening_llm"})
          /\ opening_section # <<>>

\* the executive-summary call is in flight in a run that planned, retrieved
\* with both paths and generated its sections
C17_Witness ==
    /\ InFlight("summary_llm") # {}
    /\ ~cache_hit
    /\ Started("web_search") # {}
    /\ Started("financial_agent") # {}

\* the sections at positions 1..n, each under its title heading, joined by
\* blank lines
RECURSIVE PriorText(_)
PriorText(n) ==
    IF n = 0
    THEN <<>>
    ELSE (IF n = 1 THEN <<>> ELSE PriorText(n - 1) \o << "\n\n" >>)
         \o << "## " >> \o report_structure.list[n] \o << "\n\n" >>
         \o generated_contents[n]

\* C18: under run_v3 sections are generated strictly one after the other: at
\* most one section-generation call is in flight, the call for a position
\* has started only if the call for the position before it has completed,
\* and its prior text is the concatenation, in outline order, of all earlier
\* sections, each under its own title heading (empty for the first).
C18_SequentialWithPriorText ==
    mode = "run_v3" =>
        /\ Cardinality(InFlight("section_llm")) <= 1
        /\ \A c \in Started("section_llm") :
              /\ c.k > 1 =>
                    \E b \in Started("section_llm") :
                        b.k = c.k - 1 /\ \A d \in inflight : CallId(d) # b
              /\ Len(generated_contents) >= c.k - 1
              /\ c.prev = PriorText(c.k - 1)

\* run_v3 has started the call for the third section, with two sections as
\* prior text
C18_Witness ==
    /\ mode = "run_v3"
    /\ \E c \in Started("section_llm") : c.k = 3 /\ c.prev = PriorText(2)

\* the batch (from 0) of the section at position k (from 1)
BatchOf(k) == (k - 1) \div 3

\* C19: under run sections are issued in consecutive batches of 3 in outline
\* order: at most 3 section-generation calls are in flight, the calls in
\* flight belong to one batch, a call has started only if every call of
\* every earlier batch has started and completed, and no call is given the
\* text of another section.
C19_BatchesOfThree ==
    mode = "run" =>
        /\ Cardinality(InFlight("section_llm")) <= 3
        /\ \A c, d \in InFlight("section_llm") : BatchOf(c.k) = BatchOf(d.k)
        /\ \A c \in Started("section_llm") :
              /\ \A j \in 1..(c.k - 1) :
                    \/ BatchOf(j) = BatchOf(c.k)
                    \/ \E b \in Started("section_llm") :
                          b.k = j /\ \A d \in inflight : CallId(d) # b
              /\ c.prev = <<>>

\* run has the call of its second batch in flight
C19_Witness ==
    /\ mode = "run"
    /\ \E c \in InFlight("section_llm") : c.k = 4
    /\ Len(generated_contents) = 3

-----------------------------------------------------------------------------
(* Properties of the retrieval paths                                       *)

\* C20: both retrieval paths return a list as long as the query list whose
\* i-th element is the outcome of the i-th query, a failed query being
\* represented by an exception at its position: the element of a web query
\* whose search raised is an exception object, not a result list, and the
\* element of a financial query whose agent call raised is an exception.
C20_ExceptionsKeptInPlace ==
    /\ Len(web_results) = Len(web_queries)
    /\ Len(financial_results) = Len(financial_queries)
    /\ \A r \in raised :
          IF r[1] = "web"
          THEN web_results[r[2]].shape = "other"
          ELSE financial_results[r[2]].kind = "exc"

-----------------------------------------------------------------------------
(* Properties of the web search path, request by request                   *)

\* C21: web queries are submitted in consecutive batches of 3: at most 3
\* requests are in flight, the positions are submitted once each and in
\* order, the requests in flight belong to one batch and every earlier batch
\* has been gathered, and whatever requests failed, the submissions go on:
\* while the call runs exactly the batches up to the current one have been
\* submitted, and when it returns every query was submitted and has its
\* result.
C21_WebBatchesOfThree ==
    /\ Cardinality(inflight) <= 3
    /\ \A i \in 1..Len(called) : called[i] = i
    /\ \A c \in inflight :
          /\ c.k \in Range(called)
          /\ Len(web_results) = 3 * BatchOf(c.k)
          /\ \A d \in inflight : BatchOf(d.k) = BatchOf(c.k)
    /\ pc = "searching" =>
          Len(called) = (IF Len(web_results) + 3 < Len(web_queries)
                         THEN Len(web_results) + 3 ELSE Len(web_queries))
    /\ pc = "search_done" =>
          /\ Len(called) = Len(web_queries)
          /\ Len(web_results) = Len(web_queries)
          /\ inflight = {}

\* a call with seven queries has returned: the first query failed, and a
\* sibling of its batch and a query of the last batch have their records
C21_Witness ==
    /\ pc = "search_done"
    /\ Len(web_queries) = 7
    /\ << "web", 1 >> \in raised
    /\ web_results[2].items # <<>>
    /\ web_results[7].items # <<>>

-----------------------------------------------------------------------------
(* Properties of the export                                                *)

\* C22: the markdown text is written first and the renderer is invoked only
\* if that write succeeded: the renderer has been called only with the
\* markdown file written, and a run that assembled its report and could not
\* write it has reported the failure as its last progress message, has not
\* called the renderer and has returned the report text.
C22_RenderOnlyAfterMarkdownWrite ==
    /\ "pdf_render" \in StartedKinds =>
          /\ "md" \in files
          /\ "md_save_failed" \notin Range(progress)
    /\ ("assembly_complete" \in Range(progress) /\ "md" \notin files) =>
          /\ progress[Len(progress)] = "md_save_failed"
          /\ "pdf_render" \notin StartedKinds
          /\ ending.kind = "returned_report"
          /\ final_report # <<>>

\* a run whose markdown write failed has returned
C22_Witness ==
    /\ "assembly_complete" \in Range(progress)
    /\ "md" \notin files
    /\ ending.kind = "returned_report"

\* the renderer has been called and has returned
RenderReturned == "pdf_render" \in StartedKinds /\ InFlight("pdf_render") = {}

-----------------------------------------------------------------------------
(* Properties of the outline                                               *)

ExcludedTitles == { << "Executive", " ", "Summary" >>, << "Investment", " ", "Thesis" >> }

\* C24: the outline used by a run never contains a section literally titled
\* "Executive Summary" or "Investment Thesis": whatever the LLM answered to
\* the outline prompt, once section generation has started no title of the
\* outline is one of the two.
C24_OutlineExcludesFramingTitles ==
    (pc # "run_idle" /\ "section_llm" \in StartedKinds) =>
        \A i \in 1..Len(report_structure.list) :
            report_structure.list[i] \notin ExcludedTitles

-----------------------------------------------------------------------------
(* Properties of the section anchors                                       *)

\* the anchor ids of the section blocks of a body text, in text order
AnchorIds(text) ==
    LET os == Positions(text, AnchorOpen)
        cs == Positions(text, AnchorClose)
    IN  [k \in 1..Len(os) |-> SubSeq(text, os[k] + 1, cs[k] - 1)]

\* C25: the section anchor is unique for a title within one report: in an
\* assembled body, two sections with different titles never carry the same
\* anchor (two sections with the same title carry the same one).
C25_AnchorsUniquePerTitle ==
    pc = "anchor_assembled" =>
        LET ids == AnchorIds(raw_report)
        IN  /\ Len(ids) = Len(report_structure)
            /\ \A i, j \in 1..Len(report_structure) :
                  (report_structure[i] = report_structure[j]) <=> (ids[i] = ids[j])

\* the derivation in the stated order: lower-case the trimmed title, strip
\* the leading numeric prefix, replace spaces with hyphens, drop
\* parentheses, replace '&' with 'and'
DerivedAnchor(section_title) ==
    LET d1 == LowerStr(Strip(section_title))
        d2 == StripNumericPrefix(d1)
        d3 == Replace(d2, " ", << "-" >>)
        d4 == Replace(d3, "(", <<>>)
        d5 == Replace(d4, ")", <<>>)
    IN  Replace(d5, "&", << "a", "n", "d" >>)

\* C26: for every section title the anchor written by the assembly loop is
\* the result of the derivation in the stated order; a title made of the
\* prefix '1. ' and a one-word stem yields the lower-cased stem.
C26_AnchorFollowsDerivation ==
    pc = "anchor_assembled" =>
        LET ids == AnchorIds(raw_report)
        IN  \A i \in 1..Len(report_structure) :
                ids[i] = DerivedAnchor(report_structure[i])

-----------------------------------------------------------------------------
(* Properties of the cache round trip                                      *)

\* C27: when run hits an entry and formats the cached raw results again, the
\* context and the Source Registry it obtains are those of the run that
\* created the entry, whatever kinds of result the entry holds.
C27_CacheRoundTripInRun ==
    (pc # "idle" /\ cache_hit /\ mode = "run") =>
        /\ context = cache[ticker].context
        /\ source_map = cache[ticker].built_registry

-----------------------------------------------------------------------------
(* Properties of the cache write of a run                                  *)

\* a run that missed a store it can reach
MissWithStore == pc # "run_idle" /\ client = "redis" /\ ~cache_hit

\* the entry of the run's ticker is there exactly when formatting has
\* completed, and it is there once section generation has started
EntryFollowsFormatting ==
    MissWithStore =>
        /\ cache[ticker].present <=> map_fresh
        /\ "section_llm" \in StartedKinds => cache[ticker].present
        /\ cache[ticker].present => cache[ticker].context = context

\* the store changes only in the step that completes formatting, from no
\* entry to the entry, before any section-generation call has started
WrittenOnceAfterFormatting ==
    cache' # cache =>
        /\ pc = "retrieve" /\ pc' = "sections"
        /\ ~cache[ticker].present /\ cache'[ticker].present
        /\ ~map_fresh /\ map_fresh'
        /\ "section_llm" \notin StartedKinds

\* C28: in a cache-miss run with the store available the entry is written
\* exactly once, after context formatting has completed and before the first
\* section-generation call starts; a run that ends before formatting
\* completes has written no entry, and no later step, failure included,
\* changes or removes the written entry.
C28_CacheWrittenOnce ==
    /\ []EntryFollowsFormatting
    /\ [][WrittenOnceAfterFormatting]_vars

\* a section-generation call has failed for good after the entry was
\* written, and the entry is in place
C28_Witness ==
    /\ MissWithStore
    /\ ending.kind = "raised"
    /\ ending.by.call = "section_llm"
    /\ cache[ticker].present

-----------------------------------------------------------------------------
(* Properties of the front-end                                             *)

\* C29: after a 'Generate Report' action report_generated is true only if
\* the run returned a final report (a run that returned without one, as on
\* a null outline, leaves it false), and is_running is false.
C29_ReportFlagOnlyWithReport ==
    pc = "ui_done" =>
        /\ session.report_generated => ending.kind = "returned_report"
        /\ ~session.is_running

-----------------------------------------------------------------------------
(* Properties of the assembled report                                      *)

\* C30: whenever the table of contents of a final report lists the
\* 'References' entry, the same final report contains the references
\* section with its 'references' anchor, whatever the body text cites.
C30_ListedReferencesExist ==
    TocReferences \in Range(final_report) => RefHeader \in Range(final_report)

====
